---- MODULE Spec2Model ----
(***************************************************************************)
(* A model of the gd.py object codec (gd/api/objects.py) and of its        *)
(* RobTop text records (gd/versions.py, gd/progress.py,                    *)
(* gd/api/recording.py).                                                   *)
(*                                                                         *)
(* Values.  A byte stream is a sequence of 0..255.  A text is a sequence   *)
(* of one-character strings.  A float is the record [s, e, m] of its       *)
(* binary32 sign, exponent and fraction, so that write_f32 / read_f32 are  *)
(* a packing into and out of four bytes.  An object is a record whose      *)
(* field cls names its class; the other fields are the attrs fields of     *)
(* that class.                                                             *)
(***************************************************************************)
EXTENDS Integers, Sequences, FiniteSets, TLC

VARIABLES
    pc,      \* the position of the call sequence under study
    order,   \* the ByteOrder handed to the binary calls
    obj,     \* the in-memory value (an object, a Version, a Progress, ...)
    binary,  \* the bytes in the BinaryIO sink / source
    text,    \* the RobTop string produced or consumed
    result   \* what the last decoding call returned (a value or an error)

vars == <<pc, order, obj, binary, text, result>>

(***************************************************************************)
(* Bounds of the model.                                                    *)
(***************************************************************************)
MaxChanged == 2     \* fields of an object that differ from their defaults
MaxWide == 1        \* group ids above 255 handed to the group helpers
MaxArgs == 2        \* ids handed to one call of a group helper
Spread == 2         \* block ids taken on each side of a power-of-two boundary
MaxProgress == 3    \* length of a Progress
MaxValue == 130     \* largest raw version value
MaxMajor == 12      \* largest major of a constructed version
MaxWhole == 12      \* largest whole part of a timestamp
MaxText == 6        \* length of a text handed to RecordingItem.from_robtop
MaxItems == 2       \* items of a Recording
MaxRecordingText == 5   \* length of a text handed to Recording.from_robtop
MaxGuardChanged == 1   \* fields changed in an instance handed to a guard
MaxRuns == 2        \* calls of run on one thread
MaxClients == 2     \* clients that may be attached to an entity
MaxId == 2          \* largest id of an entity
MaxWire == 3        \* group ids listed by a source to be re-encoded
MaxRounds == 2      \* decode-then-encode rounds on one source

(***************************************************************************)
(* Errors.  A failed call returns [error |-> kind]; the value None stands  *)
(* for "nothing yet".                                                      *)
(***************************************************************************)
None == [none |-> TRUE]

Raise(kind) == [error |-> kind]

IsError(v) == "error" \in DOMAIN v

(***************************************************************************)
(* Python's & and | on non-negative integers.                              *)
(***************************************************************************)
RECURSIVE BitAnd(_, _)
BitAnd(a, b) ==
    IF a = 0 \/ b = 0 THEN 0
    ELSE (a % 2) * (b % 2) + 2 * BitAnd(a \div 2, b \div 2)

RECURSIVE BitOr(_, _)
BitOr(a, b) ==
    IF a = 0 THEN b
    ELSE IF b = 0 THEN a
    ELSE (IF a % 2 = 1 \/ b % 2 = 1 THEN 1 ELSE 0) + 2 * BitOr(a \div 2, b \div 2)

RECURSIVE ShiftLeft(_, _)
ShiftLeft(a, n) == IF n = 0 THEN a ELSE ShiftLeft(2 * a, n - 1)

RECURSIVE ShiftRight(_, _)
ShiftRight(a, n) == IF n = 0 THEN a ELSE ShiftRight(a \div 2, n - 1)

RECURSIVE bit_length(_)
bit_length(a) == IF a = 0 THEN 0 ELSE 1 + bit_length(a \div 2)

(***************************************************************************)
(* The primitive codec (gd.binary_utils.Reader / Writer): fixed-width      *)
(* values over a forward-only byte cursor, in an explicit byte order.      *)
(* A cursor is [p, ok]: the next position to read and whether every read   *)
(* so far stayed inside the source.  A read returns the cursor after it,   *)
(* extended with the value v; a read past the end fails (no zero padding)  *)
(* and every later read fails with it.                                     *)
(***************************************************************************)
ByteOrders == {"little", "big"}

Bytes(v, n, o) ==
    LET le == [i \in 1..n |-> (v \div (256 ^ (i - 1))) % 256]
    IN IF o = "little" THEN le ELSE [i \in 1..n |-> le[n + 1 - i]]

write_u8(v, o) == Bytes(v, 1, o)

write_u16(v, o) == Bytes(v, 2, o)

\* The binary32 pattern of a float, as its high and low 16-bit halves.
F32Halves(f) == <<f.s * (2 ^ 15) + f.e * (2 ^ 7) + (f.m \div (2 ^ 16)), f.m % (2 ^ 16)>>

F32Of(hi, lo) ==
    [s |-> hi \div (2 ^ 15), e |-> (hi \div (2 ^ 7)) % 256, m |-> (hi % (2 ^ 7)) * (2 ^ 16) + lo]

write_f32(f, o) ==
    LET h == F32Halves(f)
    IN IF o = "little" THEN Bytes(h[2], 2, o) \o Bytes(h[1], 2, o)
       ELSE Bytes(h[1], 2, o) \o Bytes(h[2], 2, o)

Cursor(p) == [p |-> p, ok |-> TRUE]

RECURSIVE Unbytes(_, _, _, _)
Unbytes(b, p, n, o) ==
    IF n = 0 THEN 0
    ELSE IF o = "little" THEN b[p] + 256 * Unbytes(b, p + 1, n - 1, o)
    ELSE b[p + n - 1] + 256 * Unbytes(b, p, n - 1, o)

Read(b, c, n, o) ==
    IF c.ok /\ c.p + n - 1 <= Len(b)
    THEN [p |-> c.p + n, ok |-> TRUE, v |-> Unbytes(b, c.p, n, o)]
    ELSE [p |-> c.p, ok |-> FALSE, v |-> 0]

read_u8(b, c, o) == Read(b, c, 1, o)

read_u16(b, c, o) == Read(b, c, 2, o)

read_f32(b, c, o) ==
    LET first == Read(b, c, 2, o)
        second == Read(b, first, 2, o)
    IN [p |-> second.p, ok |-> second.ok,
        v |-> IF o = "little" THEN F32Of(second.v, first.v) ELSE F32Of(first.v, second.v)]

read(b, c, n) ==
    IF c.ok /\ c.p + n - 1 <= Len(b)
    THEN [p |-> c.p + n, ok |-> TRUE, v |-> SubSeq(b, c.p, c.p + n - 1)]
    ELSE [p |-> c.p, ok |-> FALSE, v |-> <<>>]

(***************************************************************************)
(* Values of the fields.                                                   *)
(***************************************************************************)
Float(s, e, m) == [s |-> s, e |-> e, m |-> m]

F0 == Float(0, 0, 0)                 \* 0.0

F1 == Float(0, 127, 0)               \* 1.0

F30 == Float(0, 131, 7 * (2 ^ 20))   \* 30.0

F45 == Float(0, 132, 13 * (2 ^ 18))  \* 45.0

FNeg == Float(1, 126, 0)             \* -0.5

\* gd.api.hsv.HSV: hue / saturation / brightness adjustment, a fixed-size
\* sub-record that encodes itself.
HSV(h, s, v) == [h |-> h, s |-> s, v |-> v]

HSVDefault == HSV(0, F1, F1)

HSV_to_binary(hsv, o) == write_u16(hsv.h, o) \o write_f32(hsv.s, o) \o write_f32(hsv.v, o)

HSV_from_binary(b, c, o) ==
    LET h == read_u16(b, c, o)
        s == read_f32(b, h, o)
        v == read_f32(b, s, o)
    IN [p |-> v.p, ok |-> v.ok, v |-> HSV(h.v, s.v, v.v)]

\* {reader.read_u16(order) for _ in range(length)}
RECURSIVE read_groups(_, _, _, _)
read_groups(b, c, length, o) ==
    IF length = 0 THEN [p |-> c.p, ok |-> c.ok, v |-> {}]
    ELSE LET g == read_u16(b, c, o)
             rest == read_groups(b, g, length - 1, o)
         IN [p |-> rest.p, ok |-> rest.ok, v |-> {g.v} \cup rest.v]

\* One read of the kind named: reader.read_u8(order), ..., HSV.from_binary;
\* "groups" is the group count and the set of that many ids, "data" a u16
\* length and that many raw bytes.
read_one(b, c, kind, o) ==
    CASE kind = "u8" -> read_u8(b, c, o)
      [] kind = "u16" -> read_u16(b, c, o)
      [] kind = "f32" -> read_f32(b, c, o)
      [] kind = "hsv" -> HSV_from_binary(b, c, o)
      [] kind = "groups" -> read_groups(b, read_u16(b, c, o), read_u16(b, c, o).v, o)
      [] kind = "data" -> read(b, read_u16(b, c, o), read_u16(b, c, o).v)

\* The reads named by kinds, one after the other; v is the sequence of the
\* values read.
RECURSIVE read_each(_, _, _, _)
read_each(b, c, kinds, o) ==
    IF kinds = <<>> THEN [p |-> c.p, ok |-> c.ok, v |-> <<>>]
    ELSE LET first == read_one(b, c, Head(kinds), o)
             rest == read_each(b, first, Tail(kinds), o)
         IN [p |-> rest.p, ok |-> rest.ok, v |-> <<first.v>> \o rest.v]

\* gd.enums.ZLayer: the codes that ZLayer(value) accepts.
ZLayerValues == 0 .. 7

ZLayerDefault == CHOOSE z \in ZLayerValues : \A y \in ZLayerValues : z <= y

(***************************************************************************)
(* gd/api/objects.py: the flag bits and masks.                             *)
(***************************************************************************)
H_FLIPPED_BIT == 1
V_FLIPPED_BIT == 2
DO_NOT_FADE_BIT == 4
DO_NOT_ENTER_BIT == 8
GROUP_PARENT_BIT == 16
HIGH_DETAIL_BIT == 32
GLOW_BIT == 64
SPECIAL_CHECKED_BIT == 128

Z_ORDER_MASK == 8191

\* A variant one bit short.
Z_ORDER_BITS_short == bit_length(Z_ORDER_MASK) - 1

Z_ORDER_BITS == bit_length(Z_ORDER_MASK)

SMOOTH_BIT == 1

DYNAMIC_BIT == 32768
BLOCK_ID_MASK == 32767

TOUCH_TRIGGERED_BIT == 1
SPAWN_TRIGGERED_BIT == 2
MULTI_TRIGGER_BIT == 4

TRIGGER_ON_EXIT_BIT == 32768

\* value & bit == bit
Test(value, bit) == BitAnd(value, bit) = bit

\* A variant that never sets the glow bit.
RECURSIVE Flags_without_glow(_)
Flags_without_glow(fs) ==
    IF fs = <<>> THEN 0
    ELSE IF fs[Len(fs)][1] /\ fs[Len(fs)][2] # GLOW_BIT
    THEN BitOr(Flags_without_glow(SubSeq(fs, 1, Len(fs) - 1)), fs[Len(fs)][2])
    ELSE Flags_without_glow(SubSeq(fs, 1, Len(fs) - 1))

\* "if flag: value |= bit", for each (flag, bit) of fs in turn
RECURSIVE Flags(_)
Flags(fs) ==
    IF fs = <<>> THEN 0
    ELSE LET rest == Flags(SubSeq(fs, 1, Len(fs) - 1))
             last == fs[Len(fs)]
         IN IF last[1] THEN BitOr(rest, last[2]) ELSE rest

(***************************************************************************)
(* class Object: the fields and their defaults.                            *)
(***************************************************************************)
ObjectFields(id) ==
    [id |-> id, x |-> F0, y |-> F0, rotation |-> F0,
     h_flipped |-> FALSE, v_flipped |-> FALSE, scale |-> F1,
     do_not_fade |-> FALSE, do_not_enter |-> FALSE,
     z_layer |-> ZLayerDefault, z_order |-> 0,
     base_editor_layer |-> 0, additional_editor_layer |-> 0,
     base_color_id |-> 0, detail_color_id |-> 0,
     base_color_hsv |-> HSVDefault, detail_color_hsv |-> HSVDefault,
     groups |-> {},
     group_parent |-> FALSE, high_detail |-> FALSE, glow |-> TRUE,
     special_checked |-> FALSE, link_id |-> 0]

\* sorted(iterable) replaced by iteration in some other order
RECURSIVE unsorted(_)
unsorted(S) ==
    IF S = {} THEN <<>>
    ELSE LET m == CHOOSE x \in S : \A y \in S : x >= y
         IN <<m>> \o unsorted(S \ {m})

\* sorted(iterable): ascending
RECURSIVE sorted(_)
sorted(S) ==
    IF S = {} THEN <<>>
    ELSE LET m == CHOOSE x \in S : \A y \in S : x <= y
         IN <<m>> \o sorted(S \ {m})

\* A variant that writes the words last to first.
RECURSIVE write_each_u16_descending(_, _)
write_each_u16_descending(seq, o) ==
    IF seq = <<>> THEN <<>>
    ELSE write_each_u16_descending(Tail(seq), o) \o write_u16(Head(seq), o)

RECURSIVE write_each_u16(_, _)
write_each_u16(seq, o) ==
    IF seq = <<>> THEN <<>> ELSE write_u16(Head(seq), o) \o write_each_u16(Tail(seq), o)

Object_to_binary(self, o) ==
    LET value == Flags(<< <<self.h_flipped, H_FLIPPED_BIT>>,
                          <<self.v_flipped, V_FLIPPED_BIT>>,
                          <<self.do_not_fade, DO_NOT_FADE_BIT>>,
                          <<self.do_not_enter, DO_NOT_ENTER_BIT>>,
                          <<self.group_parent, GROUP_PARENT_BIT>>,
                          <<self.high_detail, HIGH_DETAIL_BIT>>,
                          <<self.glow, GLOW_BIT>>,
                          <<self.special_checked, SPECIAL_CHECKED_BIT>> >>)
        z_layer_order == BitOr(BitAnd(self.z_order, Z_ORDER_MASK),
                               ShiftLeft(self.z_layer, Z_ORDER_BITS))
    IN write_u16(self.id, o)
       \o write_f32(self.x, o) \o write_f32(self.y, o)
       \o write_f32(self.rotation, o) \o write_f32(self.scale, o)
       \o write_u8(value, o)
       \o write_u16(z_layer_order, o)
       \o write_u16(self.base_editor_layer, o)
       \o write_u16(self.additional_editor_layer, o)
       \o write_u16(self.base_color_id, o)
       \o write_u16(self.detail_color_id, o)
       \o HSV_to_binary(self.base_color_hsv, o)
       \o HSV_to_binary(self.detail_color_hsv, o)
       \o write_u16(Cardinality(self.groups), o)
       \o write_each_u16(sorted(self.groups), o)
       \o write_u16(self.link_id, o)

\* Object.from_binary as run for class cls, whose fields beyond Object's
\* take the defaults `extra`.  Returns [r, c]: the instance (or the error
\* raised) and the cursor after the last read.  The reads are, in order:
\* id, x, y, rotation, scale, the flag byte and the z word (head); then,
\* after ZLayer(z_layer_value), the editor layers, the color ids, the two
\* HSVs, the groups and the link id (rest).
Object_new(cls, extra, head, rest) ==
    IF ~rest.ok THEN [r |-> Raise("Truncated"), c |-> rest]
    ELSE [c |-> Cursor(rest.p),
          r |-> [cls |-> cls] @@ extra @@
                [id |-> head[1], x |-> head[2], y |-> head[3],
                 rotation |-> head[4], scale |-> head[5],
                 h_flipped |-> Test(head[6], H_FLIPPED_BIT),
                 v_flipped |-> Test(head[6], V_FLIPPED_BIT),
                 do_not_fade |-> Test(head[6], DO_NOT_FADE_BIT),
                 do_not_enter |-> Test(head[6], DO_NOT_ENTER_BIT),
                 z_layer |-> ShiftRight(head[7], Z_ORDER_BITS),
                 z_order |-> BitAnd(head[7], Z_ORDER_MASK),
                 base_editor_layer |-> rest.v[1],
                 additional_editor_layer |-> rest.v[2],
                 base_color_id |-> rest.v[3],
                 detail_color_id |-> rest.v[4],
                 base_color_hsv |-> rest.v[5],
                 detail_color_hsv |-> rest.v[6],
                 groups |-> rest.v[7],
                 group_parent |-> Test(head[6], GROUP_PARENT_BIT),
                 high_detail |-> Test(head[6], HIGH_DETAIL_BIT),
                 glow |-> Test(head[6], GLOW_BIT),
                 special_checked |-> Test(head[6], SPECIAL_CHECKED_BIT),
                 link_id |-> rest.v[8]]]

Object_after_head(cls, extra, b, head, o) ==
    IF ~head.ok THEN [r |-> Raise("Truncated"), c |-> head]
    ELSE IF ShiftRight(head.v[7], Z_ORDER_BITS) \notin ZLayerValues
    THEN [r |-> Raise("InvalidEnumeration"), c |-> head]
    ELSE Object_new(cls, extra, head.v,
                    read_each(b, head,
                              <<"u16", "u16", "u16", "u16", "hsv", "hsv", "groups", "u16">>, o))

Object_from_binary(cls, extra, b, c, o) ==
    Object_after_head(cls, extra, b,
                      read_each(b, c, <<"u16", "f32", "f32", "f32", "f32", "u8", "u16">>, o), o)

(***************************************************************************)
(* The trait bundles and the classes composed of them.  Extra(cls) holds   *)
(* the fields a class adds to Object's, with their defaults.               *)
(***************************************************************************)
HasItem == [item_id |-> 0]

HasCount == [count |-> 0]

HasTargetGroup == [target_group_id |-> 0]

HasAdditionalGroup == HasTargetGroup @@ [additional_group_id |-> 0]

HasActivateGroup == [activate_group |-> FALSE]

HasDuration == [duration |-> F0]

HasDelay == [delay |-> F0]

HasEasing == [easing |-> "DEFAULT", easing_rate |-> F0]

HasMultiActivate == [multi_activate |-> FALSE]

\* gd.colors.Color.default(): a color is its RGB value
HasColor == [color |-> 256 * 256 * 256 - 1]

NoFields == [f \in {} |-> FALSE]

TriggerFields ==
    [touch_triggered |-> FALSE, spawn_triggered |-> FALSE, multi_trigger |-> FALSE]

ObjectClasses ==
    {"Object", "Coin", "Text", "Teleport", "AnimatedObject", "CollisionBlock",
     "Orb", "PickupItem"}

TriggerClasses ==
    {"Trigger", "ColorTrigger", "PulseTrigger", "MoveTrigger", "SpawnTrigger",
     "StopTrigger", "RotateTrigger", "FollowTrigger", "ShakeTrigger",
     "AnimationTrigger", "TouchTrigger", "CountTrigger", "InstantCountTrigger",
     "PickupTrigger", "FollowPlayerYTrigger", "OnDeathTrigger", "CollisionTrigger"}

Classes == ObjectClasses \cup TriggerClasses

Own(cls) ==
    CASE cls = "Coin" -> [coin_id |-> 0]
      [] cls = "Text" -> [content |-> <<>>]
      [] cls = "Teleport" -> [offset |-> F0, smooth |-> FALSE]
      [] cls = "AnimatedObject" -> [randomize_start |-> FALSE, animation_speed |-> F0]
      [] cls = "CollisionBlock" -> [block_id |-> 0, dynamic |-> FALSE]
      [] cls = "Orb" -> HasMultiActivate
      [] cls = "PickupItem" -> HasTargetGroup @@ HasItem @@ [mode |-> "DEFAULT"]
      [] cls = "ColorTrigger" ->
            HasColor @@ HasDuration @@
            [blending |-> FALSE, target_color_id |-> 0, copied_color_id |-> 0,
             copied_color_hsv |-> HSVDefault, copy_opacity |-> FALSE,
             player_color |-> "DEFAULT"]
      [] cls = "PulseTrigger" ->
            [fade_in |-> F0, hold |-> F0, fade_out |-> F0,
             color |-> HasColor.color, hsv |-> HSVDefault,
             target_type |-> "DEFAULT", type |-> "DEFAULT", mode |-> "DEFAULT",
             exclusive |-> FALSE]
      [] cls = "MoveTrigger" ->
            HasEasing @@ HasDuration @@
            [x_offset |-> F0, y_offset |-> F0, locked_to_player_x |-> FALSE,
             locked_to_player_y |-> FALSE, target_type |-> "DEFAULT"]
      [] cls = "SpawnTrigger" -> HasTargetGroup @@ HasDelay @@ [editor_disable |-> FALSE]
      [] cls = "StopTrigger" -> HasTargetGroup
      [] cls = "RotateTrigger" ->
            HasEasing @@ HasAdditionalGroup @@ HasDuration @@
            [target_rotation |-> F0, rotation_locked |-> FALSE]
      [] cls = "FollowTrigger" ->
            HasEasing @@ HasAdditionalGroup @@ HasDuration @@
            [x_modifier |-> F1, y_modifier |-> F1]
      [] cls = "ShakeTrigger" -> HasDuration @@ [strength |-> F0, interval |-> F0]
      [] cls = "AnimationTrigger" -> HasTargetGroup @@ [animation_id |-> 0]
      [] cls = "TouchTrigger" ->
            HasTargetGroup @@
            [hold_mode |-> FALSE, dual_mode |-> FALSE, toggle |-> "DEFAULT"]
      [] cls = "CountTrigger" ->
            HasMultiActivate @@ HasActivateGroup @@ HasCount @@ HasItem
      [] cls = "InstantCountTrigger" ->
            HasActivateGroup @@ HasCount @@ HasItem @@ [comparison |-> "DEFAULT"]
      [] cls = "PickupTrigger" -> HasCount @@ HasItem
      [] cls = "FollowPlayerYTrigger" ->
            HasDelay @@ HasTargetGroup @@
            [speed |-> F1, max_speed |-> F0, offset |-> F0]
      [] cls = "OnDeathTrigger" -> HasActivateGroup @@ HasTargetGroup
      [] cls = "CollisionTrigger" ->
            HasActivateGroup @@ HasTargetGroup @@
            [block_a_id |-> 0, block_b_id |-> 0, trigger_on_exit |-> FALSE]
      [] OTHER -> NoFields

Extra(cls) == IF cls \in TriggerClasses THEN Own(cls) @@ TriggerFields ELSE Own(cls)

\* cls(id): the instance with every other field at its default
New(cls, id) == [cls |-> cls] @@ ObjectFields(id) @@ Extra(cls)

\* The class whose to_binary / from_binary a class runs: its own when it
\* defines them, else the first in its method resolution order that does.
Defining == {"Object", "Coin", "Text", "Teleport", "CollisionBlock", "Trigger", "CollisionTrigger"}

Codec(cls) ==
    IF cls \in Defining THEN cls
    ELSE IF cls \in TriggerClasses THEN "Trigger" ELSE "Object"

(***************************************************************************)
(* str.encode("utf-8") and bytes.decode("utf-8"), for texts of code points *)
(* below 0x800 (one or two bytes each).                                    *)
(***************************************************************************)
RECURSIVE utf8_encode(_)
utf8_encode(content) ==
    IF content = <<>> THEN <<>>
    ELSE LET cp == Head(content)
         IN (IF cp < 128 THEN <<cp>> ELSE <<192 + (cp \div 64), 128 + (cp % 64)>>)
            \o utf8_encode(Tail(content))

\* [ok, v]: the text, or ok = FALSE for a UnicodeDecodeError
RECURSIVE utf8_decode(_)
utf8_decode(data) ==
    IF data = <<>> THEN [ok |-> TRUE, v |-> <<>>]
    ELSE IF data[1] < 128
    THEN LET rest == utf8_decode(Tail(data))
         IN [ok |-> rest.ok, v |-> <<data[1]>> \o rest.v]
    ELSE IF /\ data[1] \in 194 .. 223
            /\ Len(data) >= 2
            /\ data[2] \in 128 .. 191
    THEN LET rest == utf8_decode(SubSeq(data, 3, Len(data)))
         IN [ok |-> rest.ok, v |-> <<(data[1] - 192) * 64 + (data[2] - 128)>> \o rest.v]
    ELSE [ok |-> FALSE, v |-> <<>>]

(***************************************************************************)
(* The classes that define their own binary form.                          *)
(***************************************************************************)
Coin_to_binary(self, o) == Object_to_binary(self, o) \o write_u8(self.coin_id, o)

\* A class's from_binary is three steps: super().from_binary (X_from_binary),
\* the class's own reads unless that raised (X_read), and the assignment of
\* the values read to the instance unless a read was truncated (X_assign).
Coin_assign(coin, fields) ==
    IF ~fields.ok THEN [r |-> Raise("Truncated"), c |-> fields]
    ELSE [r |-> [coin EXCEPT !.coin_id = fields.v[1]], c |-> Cursor(fields.p)]

Coin_read(coin, b, o) ==
    IF IsError(coin.r) THEN coin
    ELSE Coin_assign(coin.r, read_each(b, coin.c, <<"u8">>, o))

Coin_from_binary(cls, extra, b, c, o) ==
    Coin_read(Object_from_binary(cls, extra, b, c, o), b, o)

Text_to_binary(self, o) ==
    LET data == utf8_encode(self.content)
    IN Object_to_binary(self, o) \o write_u16(Len(data), o) \o data

Text_decode(txt, content, c) ==
    IF ~content.ok THEN [r |-> Raise("UnicodeDecodeError"), c |-> c]
    ELSE [r |-> [txt EXCEPT !.content = content.v], c |-> c]

\* a variant that takes whatever bytes the source still had
Text_assign_padded(txt, fields) ==
    Text_decode(txt, utf8_decode(fields.v[1]), Cursor(fields.p))

Text_assign(txt, fields) ==
    IF ~fields.ok THEN [r |-> Raise("Truncated"), c |-> fields]
    ELSE Text_decode(txt, utf8_decode(fields.v[1]), Cursor(fields.p))

Text_read(txt, b, o) ==
    IF IsError(txt.r) THEN txt
    ELSE Text_assign(txt.r, read_each(b, txt.c, <<"data">>, o))

Text_from_binary(cls, extra, b, c, o) ==
    Text_read(Object_from_binary(cls, extra, b, c, o), b, o)

Teleport_to_binary(self, o) ==
    Object_to_binary(self, o)
    \o write_f32(self.offset, o)
    \o write_u8(Flags(<< <<self.smooth, SMOOTH_BIT>> >>), o)

Teleport_assign(teleport, fields) ==
    IF ~fields.ok THEN [r |-> Raise("Truncated"), c |-> fields]
    ELSE [r |-> [teleport EXCEPT !.offset = fields.v[1],
                                 !.smooth = Test(fields.v[2], SMOOTH_BIT)],
          c |-> Cursor(fields.p)]

Teleport_read(teleport, b, o) ==
    IF IsError(teleport.r) THEN teleport
    ELSE Teleport_assign(teleport.r, read_each(b, teleport.c, <<"f32", "u8">>, o))

Teleport_from_binary(cls, extra, b, c, o) ==
    Teleport_read(Object_from_binary(cls, extra, b, c, o), b, o)

\* A variant that writes block_id without masking it to 15 bits.
CollisionBlock_to_binary_unmasked(self, o) ==
    Object_to_binary(self, o)
    \o write_u16(IF self.dynamic THEN BitOr(self.block_id % 65536, DYNAMIC_BIT)
                 ELSE self.block_id % 65536, o)

CollisionBlock_to_binary(self, o) ==
    LET value == BitAnd(self.block_id, BLOCK_ID_MASK)
    IN Object_to_binary(self, o)
       \o write_u16(IF self.dynamic THEN BitOr(value, DYNAMIC_BIT) ELSE value, o)

CollisionBlock_assign(collision_block, fields) ==
    IF ~fields.ok THEN [r |-> Raise("Truncated"), c |-> fields]
    ELSE [r |-> [collision_block EXCEPT
                     !.block_id = BitAnd(fields.v[1], BLOCK_ID_MASK),
                     !.dynamic = Test(fields.v[1], DYNAMIC_BIT)],
          c |-> Cursor(fields.p)]

CollisionBlock_read(collision_block, b, o) ==
    IF IsError(collision_block.r) THEN collision_block
    ELSE CollisionBlock_assign(collision_block.r,
                               read_each(b, collision_block.c, <<"u16">>, o))

CollisionBlock_from_binary(cls, extra, b, c, o) ==
    CollisionBlock_read(Object_from_binary(cls, extra, b, c, o), b, o)

Trigger_to_binary(self, o) ==
    Object_to_binary(self, o)
    \o write_u8(Flags(<< <<self.touch_triggered, TOUCH_TRIGGERED_BIT>>,
                         <<self.spawn_triggered, SPAWN_TRIGGERED_BIT>>,
                         <<self.multi_trigger, MULTI_TRIGGER_BIT>> >>), o)

Trigger_assign(trigger, fields) ==
    IF ~fields.ok THEN [r |-> Raise("Truncated"), c |-> fields]
    ELSE [r |-> [trigger EXCEPT
                     !.touch_triggered = Test(fields.v[1], TOUCH_TRIGGERED_BIT),
                     !.spawn_triggered = Test(fields.v[1], SPAWN_TRIGGERED_BIT),
                     !.multi_trigger = Test(fields.v[1], MULTI_TRIGGER_BIT)],
          c |-> Cursor(fields.p)]

Trigger_read(trigger, b, o) ==
    IF IsError(trigger.r) THEN trigger
    ELSE Trigger_assign(trigger.r, read_each(b, trigger.c, <<"u8">>, o))

Trigger_from_binary(cls, extra, b, c, o) ==
    Trigger_read(Object_from_binary(cls, extra, b, c, o), b, o)

CollisionTrigger_to_binary(self, o) ==
    LET value == BitAnd(self.block_b_id, BLOCK_ID_MASK)
    IN Trigger_to_binary(self, o)
       \o write_u16(BitAnd(self.block_a_id, BLOCK_ID_MASK), o)
       \o write_u16(IF self.trigger_on_exit THEN BitOr(value, TRIGGER_ON_EXIT_BIT)
                    ELSE value, o)

\* A variant that takes trigger_on_exit from bit 15 of the first word.
CollisionTrigger_assign_first_word(collision_trigger, fields) ==
    IF ~fields.ok THEN [r |-> Raise("Truncated"), c |-> fields]
    ELSE [r |-> [collision_trigger EXCEPT
                     !.block_a_id = BitAnd(fields.v[1], BLOCK_ID_MASK),
                     !.block_b_id = BitAnd(fields.v[2], BLOCK_ID_MASK),
                     !.trigger_on_exit = Test(fields.v[1], TRIGGER_ON_EXIT_BIT)],
          c |-> Cursor(fields.p)]

CollisionTrigger_assign(collision_trigger, fields) ==
    IF ~fields.ok THEN [r |-> Raise("Truncated"), c |-> fields]
    ELSE [r |-> [collision_trigger EXCEPT
                     !.block_a_id = BitAnd(fields.v[1], BLOCK_ID_MASK),
                     !.block_b_id = BitAnd(fields.v[2], BLOCK_ID_MASK),
                     !.trigger_on_exit = Test(fields.v[2], TRIGGER_ON_EXIT_BIT)],
          c |-> Cursor(fields.p)]

CollisionTrigger_read(collision_trigger, b, o) ==
    IF IsError(collision_trigger.r) THEN collision_trigger
    ELSE CollisionTrigger_assign(collision_trigger.r,
                                 read_each(b, collision_trigger.c, <<"u16", "u16">>, o))

CollisionTrigger_from_binary(cls, extra, b, c, o) ==
    CollisionTrigger_read(Trigger_from_binary(cls, extra, b, c, o), b, o)

\* self.to_binary(binary, order): the bytes written
to_binary(self, o) ==
    CASE Codec(self.cls) = "Coin" -> Coin_to_binary(self, o)
      [] Codec(self.cls) = "Text" -> Text_to_binary(self, o)
      [] Codec(self.cls) = "Teleport" -> Teleport_to_binary(self, o)
      [] Codec(self.cls) = "CollisionBlock" -> CollisionBlock_to_binary(self, o)
      [] Codec(self.cls) = "Trigger" -> Trigger_to_binary(self, o)
      [] Codec(self.cls) = "CollisionTrigger" -> CollisionTrigger_to_binary(self, o)
      [] OTHER -> Object_to_binary(self, o)

\* cls.from_binary(binary, order) on a source holding b: the instance, or
\* the error raised
from_binary(cls, b, o) ==
    (CASE Codec(cls) = "Coin" -> Coin_from_binary(cls, Extra(cls), b, Cursor(1), o)
       [] Codec(cls) = "Text" -> Text_from_binary(cls, Extra(cls), b, Cursor(1), o)
       [] Codec(cls) = "Teleport" -> Teleport_from_binary(cls, Extra(cls), b, Cursor(1), o)
       [] Codec(cls) = "CollisionBlock" ->
             CollisionBlock_from_binary(cls, Extra(cls), b, Cursor(1), o)
       [] Codec(cls) = "Trigger" -> Trigger_from_binary(cls, Extra(cls), b, Cursor(1), o)
       [] Codec(cls) = "CollisionTrigger" ->
             CollisionTrigger_from_binary(cls, Extra(cls), b, Cursor(1), o)
       [] OTHER -> Object_from_binary(cls, Extra(cls), b, Cursor(1), o)).r

(***************************************************************************)
(* Field values an object is built with: for each field, the values it may *)
(* take besides its default, each one representable in the field's wire    *)
(* width.                                                                  *)
(***************************************************************************)
BoolFields ==
    {"h_flipped", "v_flipped", "do_not_fade", "do_not_enter", "group_parent",
     "high_detail", "glow", "special_checked", "smooth", "randomize_start",
     "dynamic", "multi_activate", "activate_group", "touch_triggered",
     "spawn_triggered", "multi_trigger", "blending", "copy_opacity", "exclusive",
     "locked_to_player_x", "locked_to_player_y", "editor_disable",
     "rotation_locked", "hold_mode", "dual_mode", "trigger_on_exit"}

FloatFields ==
    {"x", "y", "rotation", "scale", "offset", "animation_speed", "duration",
     "delay", "easing_rate", "fade_in", "hold", "fade_out", "x_offset",
     "y_offset", "target_rotation", "x_modifier", "y_modifier", "strength",
     "interval", "speed", "max_speed"}

EnumFields ==
    {"mode", "player_color", "target_type", "type", "easing", "toggle", "comparison"}

HSVFields == {"base_color_hsv", "detail_color_hsv", "copied_color_hsv", "hsv"}

Alts(f) ==
    CASE f \in BoolFields -> {TRUE, FALSE}
      [] f \in FloatFields -> {F30, FNeg}
      [] f \in EnumFields -> {"OTHER"}
      [] f \in HSVFields -> {HSV(180, F0, FNeg)}
      [] f = "groups" -> {{5, 3, 9}}
      [] f = "content" -> {<<72, 233>>}
      [] f = "z_layer" -> {7}
      [] f = "z_order" -> {Z_ORDER_MASK}
      [] f = "coin_id" -> {255}
      [] f \in {"block_id", "block_a_id", "block_b_id"} -> {258}
      [] f = "color" -> {0}
      [] OTHER -> {258}

RECURSIVE Variants(_, _)
Variants(base, k) ==
    IF k = 0 THEN {base}
    ELSE LET prev == Variants(base, k - 1)
         IN prev \cup UNION {UNION {{[r EXCEPT ![f] = v] : v \in Alts(f)}
                                    : f \in DOMAIN r \ {"cls"}}
                             : r \in prev}

(***************************************************************************)
(* SpecRoundTrip: an instance of any class, differing from the defaults in *)
(* at most MaxChanged fields, is written with to_binary and read back with *)
(* its class's from_binary, in the same byte order.                        *)
(***************************************************************************)
InitRoundTrip ==
    /\ pc = "new"
    /\ order \in ByteOrders
    /\ \E cls \in Classes : obj \in Variants(New(cls, 1), MaxChanged)
    /\ binary = <<>>
    /\ text = <<>>
    /\ result = None

Encode ==
    /\ pc = "new"
    /\ binary' = to_binary(obj, order)
    /\ pc' = "encoded"
    /\ UNCHANGED <<order, obj, text, result>>

Decode ==
    /\ pc = "encoded"
    /\ result' = from_binary(obj.cls, binary, order)
    /\ pc' = "decoded"
    /\ UNCHANGED <<order, obj, binary, text>>

NextRoundTrip == Encode \/ Decode

SpecRoundTrip == InitRoundTrip /\ [][NextRoundTrip]_vars

\* C1: for every class and every valid assignment of its fields,
\* from_binary of the bytes written by to_binary equals the instance
\* (groups compared as a set).
C1_RoundTrip == pc = "decoded" => result = obj

\* The classes that define their own binary form do round-trip.
RoundTripOfDefining == (pc = "decoded" /\ obj.cls \in Defining \ {"CollisionTrigger"}) => result = obj

(***************************************************************************)
(* SpecGroups: the group helpers of Object, called in any order on one     *)
(* instance, and to_binary called between them on a fresh sink.  pc names  *)
(* the last call made.                                                     *)
(***************************************************************************)
GroupIds == {3, 5, 9} \cup {255 + g : g \in 1 .. MaxWide}

\* the positional arguments / the iterable of one call
GroupArgs == UNION {[1 .. n -> GroupIds] : n \in 0 .. MaxArgs}

Range(seq) == {seq[i] : i \in DOMAIN seq}

\* a variant that replaces the set by the iterable's elements
update_replacing(set, iterable) == Range(iterable)

\* set.update(iterable)
update(set, iterable) == set \cup Range(iterable)

\* set.difference_update(iterable)
difference_update(set, iterable) == set \ Range(iterable)

InitGroups ==
    /\ pc = "new"
    /\ order \in ByteOrders
    /\ obj = New("Object", 1)
    /\ binary = <<>>
    /\ text = <<>>
    /\ result = None

add_groups ==
    \E groups \in GroupArgs :
        /\ obj' = [obj EXCEPT !.groups = update(@, groups)]
        /\ pc' = "add_groups"
        /\ result' = obj'   \* return self
        /\ UNCHANGED <<order, binary, text>>

add_groups_from_iterable ==
    \E iterable \in GroupArgs :
        /\ obj' = [obj EXCEPT !.groups = update(@, iterable)]
        /\ pc' = "add_groups_from_iterable"
        /\ result' = obj'   \* return self
        /\ UNCHANGED <<order, binary, text>>

remove_groups ==
    \E groups \in GroupArgs :
        /\ obj' = [obj EXCEPT !.groups = difference_update(@, groups)]
        /\ pc' = "remove_groups"
        /\ result' = obj'   \* return self
        /\ UNCHANGED <<order, binary, text>>

remove_groups_from_iterable ==
    \E iterable \in GroupArgs :
        /\ obj' = [obj EXCEPT !.groups = difference_update(@, iterable)]
        /\ pc' = "remove_groups_from_iterable"
        /\ result' = obj'   \* return self
        /\ UNCHANGED <<order, binary, text>>

WriteGroups ==
    /\ binary' = to_binary(obj, order)
    /\ pc' = "to_binary"
    /\ UNCHANGED <<order, obj, text, result>>

NextGroups ==
    \/ add_groups
    \/ add_groups_from_iterable
    \/ remove_groups
    \/ remove_groups_from_iterable
    \/ WriteGroups

SpecGroups == InitGroups /\ [][NextGroups]_vars

\* Where the group count of an encoded Object starts: an Object without
\* groups ends with its count and its link id, two bytes each.
GroupsAt == Len(Object_to_binary(New("Object", 1), "little")) - 3

\* The u16 at byte p of the sink, in the byte order of the call.
WordAt(p) ==
    IF order = "little" THEN binary[p] + 256 * binary[p + 1]
    ELSE 256 * binary[p] + binary[p + 1]

\* C2: after any sequence of group-helper calls, to_binary writes the number
\* of distinct ids held, then exactly those ids, strictly ascending.
C2_GroupsCountedAndAscending ==
    pc = "to_binary" =>
        LET n == WordAt(GroupsAt)
            id(i) == WordAt(GroupsAt + 2 * i)
        IN /\ n = Cardinality(obj.groups)
           /\ Len(binary) = GroupsAt + 1 + 2 * n + 2
           /\ {id(i) : i \in 1 .. n} = obj.groups
           /\ \A i \in 1 .. n : \A j \in 1 .. n : i < j => id(i) < id(j)

\* The ids 5, 3, 9 were added (and others removed again) and written:
\* count 3, then 3, 5, 9.
C2_Witness ==
    /\ pc = "to_binary"
    /\ obj.groups = {5, 3, 9}
    /\ WordAt(GroupsAt) = 3
    /\ <<WordAt(GroupsAt + 2), WordAt(GroupsAt + 4), WordAt(GroupsAt + 6)>> = <<3, 5, 9>>

\* The ids of S can be the ids handed to one call.
Given(S) == S \subseteq GroupIds /\ Cardinality(S) <= MaxArgs

C21_WitnessRemoved ==
    /\ pc = "remove_groups_from_iterable"
    /\ obj = New("Object", 1)
    /\ result = obj

(***************************************************************************)
(* SpecCollision: a CollisionBlock or a CollisionTrigger, with block ids   *)
(* around the 15-bit and 16-bit boundaries, is written and read back; or   *)
(* its class reads a source whose packed words are any 16-bit values.      *)
(* In the second case obj is the class alone, [cls |-> ...].               *)
(***************************************************************************)
BlockIds ==
    (0 .. Spread)
    \cup ((2 ^ 15 - Spread) .. (2 ^ 15 + Spread))
    \cup ((2 ^ 16 - Spread) .. (2 ^ 16 + Spread))
    \cup {40000}

Words == {w \in BlockIds : w < 2 ^ 16}

CollisionBlocks ==
    {[New("CollisionBlock", 1) EXCEPT !.block_id = b, !.dynamic = d]
        : b \in BlockIds, d \in BOOLEAN}

CollisionTriggers ==
    {[New("CollisionTrigger", 1) EXCEPT !.block_a_id = a, !.block_b_id = b,
                                         !.trigger_on_exit = t]
        : a \in BlockIds, b \in BlockIds, t \in BOOLEAN}

\* The encoding of a default instance with its last words replaced.
Source(cls, words, o) ==
    LET b == to_binary(New(cls, 1), o)
    IN SubSeq(b, 1, Len(b) - 2 * Len(words)) \o write_each_u16(words, o)

InitCollision ==
    /\ order \in ByteOrders
    /\ text = <<>>
    /\ result = None
    /\ \/ /\ pc = "new"
          /\ obj \in CollisionBlocks \cup CollisionTriggers
          /\ binary = <<>>
       \/ /\ pc = "encoded"
          /\ \/ /\ obj = [cls |-> "CollisionBlock"]
                /\ \E v \in Words : binary = Source("CollisionBlock", <<v>>, order)
             \/ /\ obj = [cls |-> "CollisionTrigger"]
                /\ \E a \in Words, b \in Words :
                       binary = Source("CollisionTrigger", <<a, b>>, order)

SpecCollision == InitCollision /\ [][NextRoundTrip]_vars

IsInstance(v) == "id" \in DOMAIN v

\* The last u16 of the sink, and the one before it.
LastWord == WordAt(Len(binary) - 1)

WordBeforeLast == WordAt(Len(binary) - 3)

\* C3: a CollisionBlock's packed word v decodes to block_id = v & 0x7FFF
\* and dynamic = ((v & 0x8000) != 0); encoding (block_id, dynamic) writes
\* (block_id & 0x7FFF) | (0x8000 if dynamic else 0).
C3_CollisionBlockWord ==
    obj.cls = "CollisionBlock" =>
        /\ (pc # "new" /\ IsInstance(obj)) =>
               LastWord = (obj.block_id % 32768) + (IF obj.dynamic THEN 32768 ELSE 0)
        /\ pc = "decoded" =>
               /\ ~IsError(result)
               /\ result.block_id = LastWord % 32768
               /\ result.dynamic = (LastWord >= 32768)

\* A source word with the top bit set and all low bits set was decoded.
C3_Witness ==
    /\ obj.cls = "CollisionBlock"
    /\ pc = "decoded"
    /\ ~IsInstance(obj)
    /\ LastWord = 65535
    /\ result.block_id = 32767
    /\ result.dynamic

\* A block id wider than 15 bits was encoded without the dynamic flag.
C3_WitnessEncode ==
    /\ obj.cls = "CollisionBlock"
    /\ pc = "encoded"
    /\ IsInstance(obj)
    /\ obj.block_id = 40000
    /\ ~obj.dynamic
    /\ LastWord = 7232

\* C4: a CollisionTrigger writes block_a_id & 0x7FFF, then
\* (block_b_id & 0x7FFF) | (0x8000 if trigger_on_exit else 0); from_binary
\* takes both ids from the low 15 bits of their words, and trigger_on_exit
\* from bit 15 of the second word only.
C4_CollisionTriggerWords ==
    obj.cls = "CollisionTrigger" =>
        /\ (pc # "new" /\ IsInstance(obj)) =>
               /\ WordBeforeLast = obj.block_a_id % 32768
               /\ LastWord = (obj.block_b_id % 32768)
                             + (IF obj.trigger_on_exit THEN 32768 ELSE 0)
        /\ pc = "decoded" =>
               /\ ~IsError(result)
               /\ result.block_a_id = WordBeforeLast % 32768
               /\ result.block_b_id = LastWord % 32768
               /\ result.trigger_on_exit = (LastWord >= 32768)

\* block_a_id = 40000 was written as 40000 & 0x7FFF and read back so.
C4_Witness ==
    /\ obj.cls = "CollisionTrigger"
    /\ pc = "decoded"
    /\ IsInstance(obj)
    /\ obj.block_a_id = 40000
    /\ WordBeforeLast = 7232
    /\ result.block_a_id = 7232

(***************************************************************************)
(* RobTop text.  A string is a sequence of one-character strings.  str and *)
(* int are Python's conversions between integers and decimal text; the    *)
(* joining and splitting helpers of gd.models_utils follow the shared      *)
(* convention: fields joined by one separator character.                   *)
(***************************************************************************)
EMPTY == <<>>

DigitChars == <<"0", "1", "2", "3", "4", "5", "6", "7", "8", "9">>

IsDigit(ch) == \E d \in 1 .. 10 : DigitChars[d] = ch

DigitValue(ch) == (CHOOSE d \in 1 .. 10 : DigitChars[d] = ch) - 1

\* The decimal digits of n >= 0, most significant first.
RECURSIVE Decimal(_)
Decimal(n) ==
    IF n < 10 THEN <<DigitChars[n + 1]>>
    ELSE Decimal(n \div 10) \o <<DigitChars[(n % 10) + 1]>>

\* str(n) for an integer n.
str(n) == IF n < 0 THEN <<"-">> \o Decimal(-n) ELSE Decimal(n)

\* The value of a non-empty run of digits, given the value acc read so far.
RECURSIVE Undecimal(_, _)
Undecimal(digits, acc) ==
    IF digits = <<>> THEN acc
    ELSE Undecimal(Tail(digits), 10 * acc + DigitValue(Head(digits)))

\* int(string): an optional sign and at least one digit, else ValueError
\* (ok = FALSE).
int(string) ==
    LET signed == string # <<>> /\ Head(string) \in {"-", "+"}
        digits == IF signed THEN Tail(string) ELSE string
    IN IF digits = <<>> \/ \E i \in DOMAIN digits : ~IsDigit(digits[i])
       THEN [ok |-> FALSE, v |-> 0]
       ELSE [ok |-> TRUE,
             v |-> IF signed /\ Head(string) = "-" THEN -Undecimal(digits, 0)
                   ELSE Undecimal(digits, 0)]

\* separator.join(parts)
RECURSIVE concat_string(_, _)
concat_string(parts, separator) ==
    IF parts = <<>> THEN EMPTY
    ELSE IF Len(parts) = 1 THEN parts[1]
    ELSE parts[1] \o <<separator>> \o concat_string(Tail(parts), separator)

\* string.split(separator): k separators give k + 1 parts, so the empty
\* string gives one empty part.
RECURSIVE split_string(_, _)
split_string(string, separator) ==
    IF \A i \in DOMAIN string : string[i] # separator THEN <<string>>
    ELSE LET at == CHOOSE i \in DOMAIN string :
                       /\ string[i] = separator
                       /\ \A j \in 1 .. (i - 1) : string[j] # separator
         IN <<SubSeq(string, 1, at - 1)>>
            \o split_string(SubSeq(string, at + 1, Len(string)), separator)

PROGRESS_SEPARATOR == ","

RECORDING_SEPARATOR == ";"

ONE == <<"1">>

concat_progress(parts) == concat_string(parts, PROGRESS_SEPARATOR)

split_progress(string) == split_string(string, PROGRESS_SEPARATOR)

concat_recording(parts) == concat_string(parts, RECORDING_SEPARATOR)

(***************************************************************************)
(* gd/progress.py                                                          *)
(***************************************************************************)
Progress(items) == [cls |-> "Progress", items |-> items]

Progress_to_robtop(self) ==
    concat_progress([i \in DOMAIN self.items |-> str(self.items[i])])

\* collect(cls) of the parsed parts; int raises on the first bad part.
Progress_collect(ints) ==
    IF \E i \in DOMAIN ints : ~ints[i].ok THEN Raise("ValueError")
    ELSE Progress([i \in DOMAIN ints |-> ints[i].v])

Progress_map_int(parts) == Progress_collect([i \in DOMAIN parts |-> int(parts[i])])

Progress_from_robtop(string) == Progress_map_int(split_progress(string))

\* gd.binary_utils: a signed 8-bit value as its two's-complement byte.
write_i8(v, o) == Bytes(v % 256, 1, o)

read_i8(b, c, o) ==
    LET u == Read(b, c, 1, o)
    IN [p |-> u.p, ok |-> u.ok, v |-> IF u.v >= 128 THEN u.v - 256 ELSE u.v]

\* writer.write_i8(part) for each part in order; each takes one byte.
write_each_i8(seq, o) == [i \in DOMAIN seq |-> write_i8(seq[i], o)[1]]

\* a variant that writes the parts without their count
Progress_to_binary_uncounted(self, o) == write_each_i8(self.items, o)

Progress_to_binary(self, o) ==
    write_u8(Len(self.items), o) \o write_each_i8(self.items, o)

\* iter.repeat_exactly_with(reader.read_i8, length): the values of `length`
\* reads, in order; the i-th read starts i - 1 bytes after the first.
repeat_exactly_with_read_i8(b, c, length, o) ==
    LET part(i) == read_i8(b, [c EXCEPT !.p = c.p + i - 1], o)
    IN [p |-> c.p + length,
        ok |-> \A i \in 1 .. length : part(i).ok,
        v |-> [i \in 1 .. length |-> part(i).v]]

Progress_collect_binary(parts) ==
    IF ~parts.ok THEN Raise("Truncated") ELSE Progress(parts.v)

Progress_read_parts(b, length, o) ==
    IF ~length.ok THEN Raise("Truncated")
    ELSE Progress_collect_binary(repeat_exactly_with_read_i8(b, length, length.v, o))

Progress_from_binary(b, o) == Progress_read_parts(b, read_u8(b, Cursor(1), o), o)

(***************************************************************************)
(* gd/versions.py                                                          *)
(***************************************************************************)
BASE == 10

\* A variant whose check_minor lets minor = BASE through.
Version_with_minor_up_to_base(cls, major, minor) ==
    IF major < 0 THEN Raise("ValueError")
    ELSE IF minor < 0 THEN Raise("ValueError")
    ELSE IF minor > BASE THEN Raise("ValueError")
    ELSE [cls |-> cls, major |-> major, minor |-> minor]

\* cls(major, minor): the attrs validators check_major and check_minor run
\* on construction.
Version(cls, major, minor) ==
    IF major < 0 THEN Raise("ValueError")
    ELSE IF minor < 0 THEN Raise("ValueError")
    ELSE IF minor >= BASE THEN Raise("ValueError")
    ELSE [cls |-> cls, major |-> major, minor |-> minor]

\* A variant that swaps the quotient and the remainder.
Version_from_value_swapped(cls, value) == Version(cls, value % BASE, (value \div BASE) % BASE)

\* divmod floors, as \div and % do.
Version_from_value(cls, value) == Version(cls, value \div BASE, value % BASE)

\* A variant that does not scale the major part.
Version_to_value_unscaled(self) == self.major + self.minor

Version_to_value(self) == self.major * BASE + self.minor

\* The outcome of cls.from_value(int(string)), given int's outcome.
Version_from_int(cls, value) ==
    IF ~value.ok THEN Raise("ValueError") ELSE Version_from_value(cls, value.v)

Version_from_robtop(cls, string) == Version_from_int(cls, int(string))

Version_to_robtop(self) == str(Version_to_value(self))

\* A variant whose first range also takes the raw value 8.
GameVersion_from_robtop_value_wide(cls, value) ==
    IF value = 0 THEN Version(cls, 0, 0)
    ELSE IF 0 < value /\ value <= 8 THEN Version(cls, 1, value - 1)
    ELSE IF value < 10 THEN Raise("ValueError")
    ELSE IF value = 10 THEN Version(cls, 1, 7)
    ELSE IF value = 11 THEN Version(cls, 1, 8)
    ELSE Version_from_value(cls, value)

GameVersion_from_robtop_value(cls, value) ==
    IF value = 0 THEN Version(cls, 0, 0)
    ELSE IF 0 < value /\ value < 8 THEN Version(cls, 1, value - 1)
    ELSE IF value < 10 THEN Raise("ValueError")
    ELSE IF value = 10 THEN Version(cls, 1, 7)
    ELSE IF value = 11 THEN Version(cls, 1, 8)
    ELSE Version_from_value(cls, value)

\* A variant that sends 1.7 and 1.8 to the same raw value.
GameVersion_to_robtop_value_merged(self) ==
    IF self.major = 1 /\ self.minor = 8 THEN 10
    ELSE IF self.major = 1 /\ self.minor = 7 THEN 10
    ELSE IF self.major = 1 /\ self.minor < 7 THEN self.minor + 1
    ELSE Version_to_value(self)

GameVersion_to_robtop_value(self) ==
    IF self.major = 1 /\ self.minor = 8 THEN 11
    ELSE IF self.major = 1 /\ self.minor = 7 THEN 10
    ELSE IF self.major = 1 /\ self.minor < 7 THEN self.minor + 1
    ELSE Version_to_value(self)

GameVersion_from_int(cls, value) ==
    IF ~value.ok THEN Raise("ValueError")
    ELSE GameVersion_from_robtop_value(cls, value.v)

GameVersion_from_robtop(cls, string) == GameVersion_from_int(cls, int(string))

GameVersion_to_robtop(self) == str(GameVersion_to_robtop_value(self))

(***************************************************************************)
(* gd/api/recording.py                                                     *)
(***************************************************************************)
\* A timestamp is a non-negative decimal: its whole part and the digits of
\* its fractional part, the last of them non-zero.
Timestamp(whole, frac) == [whole |-> whole, frac |-> frac]

RecordingItem(timestamp, previous, next, secondary) ==
    [cls |-> "RecordingItem", timestamp |-> timestamp, previous |-> previous,
     next |-> next, secondary |-> secondary]

\* float_str(value): the shortest decimal text of the value.
float_str(value) ==
    IF value.frac = <<>> THEN str(value.whole)
    ELSE str(value.whole) \o <<".">>
         \o [i \in DOMAIN value.frac |-> DigitChars[value.frac[i] + 1]]

\* A variant that yields the next marker only when next is true.
RecordingItem_to_robtop_iterator_skipping(self) ==
    (IF self.previous THEN <<ONE>> ELSE <<>>)
    \o <<float_str(self.timestamp)>>
    \o (IF self.next THEN <<ONE>> ELSE <<>>)
    \o <<EMPTY>>
    \o (IF self.secondary THEN <<EMPTY>> ELSE <<>>)

\* The tokens yielded, in order.
RecordingItem_to_robtop_iterator(self) ==
    (IF self.previous THEN <<ONE>> ELSE <<>>)
    \o <<float_str(self.timestamp)>>
    \o <<IF self.next THEN ONE ELSE EMPTY>>
    \o <<EMPTY>>
    \o (IF self.secondary THEN <<EMPTY>> ELSE <<>>)

RecordingItem_to_robtop(self) == concat_recording(RecordingItem_to_robtop_iterator(self))

\* string[i], or no character past either end of the string.
At(string, i) == IF i \in DOMAIN string THEN string[i] ELSE ""

\* RECORDING_ITEM_PATTERN has four choice points, tried in this order with
\* the first alternative preferred: the previous group (taken, skipped),
\* the fractional group (taken with as many digits as possible down to
\* none, skipped: frac = -1), the next group (taken, skipped) and the
\* secondary group (taken, skipped).  A branch fixes the four choices.
Branches(string) ==
    [previous : BOOLEAN, frac : -1 .. Len(string), next : BOOLEAN, secondary : BOOLEAN]

\* Where the timestamp, the separator after it and the separator after the
\* next group stand when the branch is tried at position p; and its end.
BranchTimestamp(p, c) == p + (IF c.previous THEN 2 ELSE 0)

BranchSeparator(p, c) == BranchTimestamp(p, c) + 1 + (IF c.frac < 0 THEN 0 ELSE 1 + c.frac)

BranchLast(p, c) == BranchSeparator(p, c) + 1 + (IF c.next THEN 1 ELSE 0)

BranchEnd(p, c) == BranchLast(p, c) + 1 + (IF c.secondary THEN 1 ELSE 0)

\* The branch matches the characters of the string from position p on.
BranchMatches(string, p, c) ==
    /\ c.previous => (At(string, p) = ONE[1] /\ At(string, p + 1) = RECORDING_SEPARATOR)
    /\ IsDigit(At(string, BranchTimestamp(p, c)))
    /\ c.frac >= 0 =>
           /\ At(string, BranchTimestamp(p, c) + 1) = "."
           /\ \A j \in 1 .. c.frac : IsDigit(At(string, BranchTimestamp(p, c) + 1 + j))
    /\ At(string, BranchSeparator(p, c)) = RECORDING_SEPARATOR
    /\ c.next => At(string, BranchSeparator(p, c) + 1) = ONE[1]
    /\ At(string, BranchLast(p, c)) = RECORDING_SEPARATOR
    /\ c.secondary => At(string, BranchLast(p, c) + 1) = ";"

\* The order in which backtracking tries the branches: lower is earlier.
BranchRank(string, c) ==
    (IF c.previous THEN 0 ELSE 1) * 4 * (Len(string) + 2)
    + (Len(string) - c.frac) * 4
    + (IF c.next THEN 0 ELSE 2)
    + (IF c.secondary THEN 0 ELSE 1)

\* match.group(name): None, or the text the group matched.
Group(taken, string) == IF taken THEN [group |-> string] ELSE None

IsNone(v) == "none" \in DOMAIN v

\* The match object of a branch tried at p.
Match(string, p, c) ==
    [ok |-> TRUE, start |-> p, end |-> BranchEnd(p, c),
     previous |-> Group(c.previous, ONE),
     timestamp |-> Group(TRUE, SubSeq(string, BranchTimestamp(p, c),
                                      BranchSeparator(p, c) - 1)),
     next |-> Group(c.next, ONE),
     secondary |-> Group(c.secondary, EMPTY)]

\* The first of the matching branches in backtracking order, or no match.
FirstMatch(string, p, matching) ==
    IF matching = {} THEN [ok |-> FALSE, start |-> p, end |-> p]
    ELSE Match(string, p,
               CHOOSE c \in matching :
                   \A d \in matching : BranchRank(string, c) <= BranchRank(string, d))

\* RECORDING_ITEM.match(string, p): a match starting at p.
RECORDING_ITEM_match(string, p) ==
    FirstMatch(string, p, {c \in Branches(string) : BranchMatches(string, p, c)})

\* RECORDING_ITEM.fullmatch(string): a match of the whole string.
RECORDING_ITEM_fullmatch(string) ==
    FirstMatch(string, 1,
               {c \in Branches(string) :
                    BranchMatches(string, 1, c) /\ BranchEnd(1, c) = Len(string) + 1})

\* RECORDING_ITEM.finditer(string), from position p on: the leftmost match,
\* then the matches after its end; a position where nothing matches is
\* passed over.
RECURSIVE RECORDING_ITEM_finditer(_, _)
RECURSIVE finditer_after(_, _, _)
finditer_after(string, p, match) ==
    IF match.ok THEN <<match>> \o RECORDING_ITEM_finditer(string, match.end)
    ELSE RECORDING_ITEM_finditer(string, p + 1)

RECORDING_ITEM_finditer(string, p) ==
    IF p > Len(string) THEN <<>>
    ELSE finditer_after(string, p, RECORDING_ITEM_match(string, p))

\* The digits of a fraction without its trailing zeros.
RECURSIVE StripZeros(_)
StripZeros(digits) ==
    IF digits # <<>> /\ digits[Len(digits)] = 0
    THEN StripZeros(SubSeq(digits, 1, Len(digits) - 1))
    ELSE digits

\* float(string) of digits with an optional "." and digits.
float_of_parts(parts) ==
    Timestamp(int(parts[1]).v,
              IF Len(parts) < 2 THEN <<>>
              ELSE StripZeros([i \in DOMAIN parts[2] |-> DigitValue(parts[2][i])]))

float(string) == float_of_parts(split_string(string, "."))

\* int_bool(string): bool(int(string))
int_bool(string) == int(string).v # 0

RecordingItem_from_robtop_match(match) ==
    RecordingItem(float(match.timestamp.group),
                  IF IsNone(match.previous) THEN FALSE ELSE int_bool(match.previous.group),
                  IF IsNone(match.next) THEN FALSE ELSE int_bool(match.next.group),
                  ~IsNone(match.secondary))

\* The outcome of from_robtop given the outcome of fullmatch.
RecordingItem_from_fullmatch(match) ==
    IF ~match.ok THEN Raise("ValueError") ELSE RecordingItem_from_robtop_match(match)

RecordingItem_from_robtop(string) ==
    RecordingItem_from_fullmatch(RECORDING_ITEM_fullmatch(string))

Recording(items) == [cls |-> "Recording", items |-> items]

\* concat_empty(parts): the parts back to back.
RECURSIVE concat_empty(_)
concat_empty(parts) ==
    IF parts = <<>> THEN EMPTY ELSE Head(parts) \o concat_empty(Tail(parts))

Recording_collect_robtop(recording) ==
    concat_empty([i \in DOMAIN recording |-> RecordingItem_to_robtop(recording[i])])

Recording_to_robtop(self) == Recording_collect_robtop(self.items)

\* map(item_type.from_robtop_match, matches)
Recording_map_matches(matches) ==
    [i \in DOMAIN matches |-> RecordingItem_from_robtop_match(matches[i])]

Recording_iter_robtop(string) == Recording_map_matches(RECORDING_ITEM_finditer(string, 1))

Recording_from_robtop(string) == Recording(Recording_iter_robtop(string))

\* self.to_robtop() and cls.from_robtop(string), by class.
to_robtop(self) ==
    CASE self.cls = "Progress" -> Progress_to_robtop(self)
      [] self.cls = "Version" -> Version_to_robtop(self)
      [] self.cls = "GameVersion" -> GameVersion_to_robtop(self)
      [] self.cls = "RecordingItem" -> RecordingItem_to_robtop(self)
      [] self.cls = "Recording" -> Recording_to_robtop(self)

from_robtop(cls, string) ==
    CASE cls = "Progress" -> Progress_from_robtop(string)
      [] cls = "Version" -> Version_from_robtop(cls, string)
      [] cls = "GameVersion" -> GameVersion_from_robtop(cls, string)
      [] cls = "RecordingItem" -> RecordingItem_from_robtop(string)
      [] cls = "Recording" -> Recording_from_robtop(string)

\* A value of the text classes, as opposed to a request to decode one.
IsValue(v) == "major" \in DOMAIN v \/ "items" \in DOMAIN v \/ "timestamp" \in DOMAIN v

\* text = self.to_robtop()
ToRobTop ==
    /\ pc = "new"
    /\ text' = to_robtop(obj)
    /\ pc' = "encoded"
    /\ UNCHANGED <<order, obj, binary, result>>

\* result = cls.from_robtop(text)
FromRobTop ==
    /\ pc = "encoded"
    /\ result' = from_robtop(obj.cls, text)
    /\ pc' = "decoded"
    /\ UNCHANGED <<order, obj, binary, text>>

(***************************************************************************)
(* SpecProgress: a Progress is written as text and read back.              *)
(***************************************************************************)
ProgressValues == {-128, -1, 0, 7, 100, 127}

RECURSIVE SeqsUpTo(_, _)
SeqsUpTo(S, n) ==
    IF n = 0 THEN {<<>>}
    ELSE SeqsUpTo(S, n - 1)
         \cup {Append(q, x) : q \in {r \in SeqsUpTo(S, n - 1) : Len(r) = n - 1}, x \in S}

InitProgress ==
    /\ pc = "new"
    /\ order = "little"
    /\ obj \in {Progress(items) : items \in SeqsUpTo(ProgressValues, MaxProgress)}
    /\ binary = <<>>
    /\ text = EMPTY
    /\ result = None

NextProgress == ToRobTop \/ FromRobTop

SpecProgress == InitProgress /\ [][NextProgress]_vars

\* C5: for every sequence p of signed 8-bit integers, the empty one
\* included, Progress.from_robtop(Progress(p).to_robtop()) equals
\* Progress(p), same elements in the same order.
C5_ProgressRoundTrip ==
    (pc = "decoded" /\ obj.cls = "Progress") => result = obj

\* Every non-empty Progress does round-trip.
ProgressRoundTripNonEmpty ==
    (pc = "decoded" /\ obj.cls = "Progress" /\ obj.items # <<>>) => result = obj

(***************************************************************************)
(* SpecProgressBinary: a Progress is written to a sink and read back.      *)
(* Besides the short sequences there are two long ones, of 2^8 - 1 and     *)
(* 2^8 parts.                                                              *)
(***************************************************************************)
U8Limit == 2 ^ 8

LongProgress == {[i \in 1 .. n |-> 1] : n \in {U8Limit - 1, U8Limit}}

InitProgressBinary ==
    /\ pc = "new"
    /\ order \in ByteOrders
    /\ obj \in {Progress(items) :
                   items \in SeqsUpTo(ProgressValues, MaxProgress) \cup LongProgress}
    /\ binary = <<>>
    /\ text = EMPTY
    /\ result = None

ProgressToBinary ==
    /\ pc = "new"
    /\ binary' = Progress_to_binary(obj, order)
    /\ pc' = "encoded"
    /\ UNCHANGED <<order, obj, text, result>>

ProgressFromBinary ==
    /\ pc = "encoded"
    /\ result' = Progress_from_binary(binary, order)
    /\ pc' = "decoded"
    /\ UNCHANGED <<order, obj, binary, text>>

NextProgressBinary == ProgressToBinary \/ ProgressFromBinary

SpecProgressBinary == InitProgressBinary /\ [][NextProgressBinary]_vars

\* The sink holds the count of the parts and then each part as a signed
\* byte, in order; and what was read back is the Progress written.
CountedAndSigned ==
    /\ pc \in {"encoded", "decoded"} =>
          /\ Len(binary) = 1 + Len(obj.items)
          /\ binary[1] = Len(obj.items)
          /\ \A i \in DOMAIN obj.items :
                /\ binary[i + 1] \in 0 .. 255
                /\ binary[i + 1] \in {obj.items[i], obj.items[i] + 256}
    /\ pc = "decoded" => result = obj

\* C23 as stated: the binary form is a u8 count and the parts as signed
\* bytes, and from_binary gives the sequence back, for every sequence of
\* signed 8-bit integers.
C23_EveryProgressRoundTrips == CountedAndSigned

\* C23, for the sequences whose length fits the u8 count (at most 255
\* parts).
C23_ProgressBinaryRoundTrip ==
    Len(obj.items) < U8Limit => CountedAndSigned

\* A Progress with a negative part and a repeated part was written and read
\* back.
C23_Witness ==
    /\ pc = "decoded"
    /\ obj.items = <<-128, 7, 7>>
    /\ binary = <<3, 128, 7, 7>>
    /\ result = obj

\* The longest Progress the count can hold was read back.
C23_WitnessLongest ==
    /\ pc = "decoded"
    /\ Len(obj.items) = U8Limit - 1
    /\ result = obj

(***************************************************************************)
(* SpecVersion: versions are turned into raw values and text, and raw      *)
(* values and text into versions.                                          *)
(***************************************************************************)
VersionClasses == {"Version", "GameVersion"}

Versions ==
    {Version(cls, major, minor) :
        cls \in VersionClasses, major \in 0 .. MaxMajor, minor \in 0 .. (BASE - 1)}

RawValues == (-Spread) .. MaxValue

\* The arguments handed to the constructor, valid or not.
MajorArguments == (-Spread) .. Spread

MinorArguments == (-Spread) .. (BASE + Spread)

InitVersion ==
    /\ order = "little"
    /\ binary = <<>>
    /\ result = None
    /\ \/ /\ pc = "new"
          /\ obj \in Versions
          /\ text = EMPTY
       \/ /\ pc = "value"
          /\ \E cls \in VersionClasses, value \in RawValues :
                 obj = [cls |-> cls, value |-> value]
          /\ text = EMPTY
       \/ /\ pc = "encoded"
          /\ \E cls \in VersionClasses : obj = [cls |-> cls]
          /\ \E value \in RawValues : text = str(value)
       \/ /\ pc = "arguments"
          /\ \E cls \in VersionClasses, major \in MajorArguments, minor \in MinorArguments :
                 obj = [cls |-> cls, arguments |-> <<major, minor>>]
          /\ text = EMPTY

\* result = cls(major, minor)
Construct ==
    /\ pc = "arguments"
    /\ result' = Version(obj.cls, obj.arguments[1], obj.arguments[2])
    /\ pc' = "constructed"
    /\ UNCHANGED <<order, obj, binary, text>>

\* result = cls.from_value(value)
FromValue ==
    /\ pc = "value"
    /\ result' = Version_from_value(obj.cls, obj.value)
    /\ pc' = "from_value"
    /\ UNCHANGED <<order, obj, binary, text>>

\* result = GameVersion.from_robtop_value(value)
FromRobTopValue ==
    /\ pc = "value"
    /\ obj.cls = "GameVersion"
    /\ result' = GameVersion_from_robtop_value(obj.cls, obj.value)
    /\ pc' = "from_robtop_value"
    /\ UNCHANGED <<order, obj, binary, text>>

\* result = version.to_value(), of a new version or of the one from_value
\* returned.
ToValue ==
    /\ \/ /\ pc = "new"
          /\ result' = [value |-> Version_to_value(obj)]
          /\ pc' = "to_value"
       \/ /\ pc = "from_value"
          /\ ~IsError(result)
          /\ result' = [value |-> Version_to_value(result)]
          /\ pc' = "from_value.to_value"
    /\ UNCHANGED <<order, obj, binary, text>>

\* result = game_version.to_robtop_value(), of the version
\* from_robtop_value returned.
ToRobTopValue ==
    /\ pc = "from_robtop_value"
    /\ ~IsError(result)
    /\ result' = [value |-> GameVersion_to_robtop_value(result)]
    /\ pc' = "from_robtop_value.to_robtop_value"
    /\ UNCHANGED <<order, obj, binary, text>>

NextVersion ==
    \/ Construct
    \/ ToRobTop
    \/ FromRobTop
    \/ FromValue
    \/ FromRobTopValue
    \/ ToValue
    \/ ToRobTopValue

SpecVersion == InitVersion /\ [][NextVersion]_vars

\* C6: Version(major, minor).to_value() equals major * 10 + minor, and for
\* every v >= 0 Version.from_value(v) succeeds and its to_value() is v.
C6_VersionValue ==
    /\ pc = "to_value" => result.value = obj.major * 10 + obj.minor
    /\ (pc = "from_value" /\ obj.value >= 0) =>
           /\ ~IsError(result)
           /\ result.major >= 0
           /\ result.minor \in 0 .. 9
    /\ (pc = "from_value.to_value" /\ obj.value >= 0) => result.value = obj.value

\* A raw value of three digits went through from_value and to_value.
C6_Witness ==
    /\ pc = "from_value.to_value"
    /\ obj.cls = "Version"
    /\ obj.value = 127
    /\ result.value = 127

\* The version the claimed table gives for a raw value.
RobTopTable(v) ==
    IF v = 0 THEN [major |-> 0, minor |-> 0]
    ELSE IF v \in 1 .. 7 THEN [major |-> 1, minor |-> v - 1]
    ELSE IF v = 10 THEN [major |-> 1, minor |-> 7]
    ELSE IF v = 11 THEN [major |-> 1, minor |-> 8]
    ELSE [major |-> v \div 10, minor |-> v % 10]

\* C7: GameVersion.from_robtop maps the raw decimal 0 to (0,0), v in 1..7
\* to (1, v-1), 10 to (1,7), 11 to (1,8), v >= 12 to (v div 10, v mod 10),
\* and raises for 8 and 9.
C7_FromRobTopTable ==
    \A v \in 0 .. MaxValue :
        (pc = "decoded" /\ obj = [cls |-> "GameVersion"] /\ text = str(v)) =>
            IF v \in {8, 9} THEN result = Raise("ValueError")
            ELSE result = [cls |-> "GameVersion"] @@ RobTopTable(v)

\* The text "11" was decoded to 1.8.
C7_Witness ==
    /\ pc = "decoded"
    /\ obj = [cls |-> "GameVersion"]
    /\ text = <<"1", "1">>
    /\ result = Version("GameVersion", 1, 8)

\* The text "9" was rejected.
C7_WitnessInvalid ==
    /\ pc = "decoded"
    /\ obj = [cls |-> "GameVersion"]
    /\ text = <<"9">>
    /\ IsError(result)

\* C8 as stated: for every GameVersion g, from_robtop(g.to_robtop())
\* succeeds and equals g.
C8_EveryGameVersionRoundTrips ==
    (pc = "decoded" /\ obj.cls = "GameVersion" /\ IsValue(obj)) => result = obj

\* C8 as the code has it: from_robtop(g.to_robtop()) equals g when
\* major >= 1 or g is 0.0; for major = 0 it is (1, minor - 1) when minor is
\* in 1..7 and a ValueError when minor is 8 or 9.
C8_GameVersionRoundTrip ==
    (pc = "decoded" /\ obj.cls = "GameVersion" /\ IsValue(obj)) =>
        IF obj.major >= 1 \/ obj.minor = 0 THEN result = obj
        ELSE IF obj.minor \in 1 .. 7
             THEN result = Version("GameVersion", 1, obj.minor - 1)
        ELSE result = Raise("ValueError")

\* 1.8 was written as "11" and read back as 1.8.
C8_Witness ==
    /\ pc = "decoded"
    /\ obj = Version("GameVersion", 1, 8)
    /\ text = <<"1", "1">>
    /\ result = obj

\* 0.1 was written as "1" and read back as 1.0.
C8_WitnessShifted ==
    /\ pc = "decoded"
    /\ obj = Version("GameVersion", 0, 1)
    /\ text = <<"1">>
    /\ result = Version("GameVersion", 1, 0)

\* C29: every raw value GameVersion.to_robtop produces is accepted by
\* GameVersion.from_robtop; for no GameVersion with major >= 0 and minor in
\* 0..9 does encoding emit the raw value 8 or 9, which decoding rejects.
C29_EncodedIsAccepted ==
    (pc \in {"encoded", "decoded"} /\ obj.cls = "GameVersion" /\ IsValue(obj)) =>
        /\ text \notin {<<"8">>, <<"9">>}
        /\ pc = "decoded" => ~IsError(result)

\* Only 0.8 and 0.9 are written as a raw value that is rejected.
OnlyZeroEightAndNineRejected ==
    (pc = "decoded" /\ obj.cls = "GameVersion" /\ IsValue(obj) /\ IsError(result)) =>
        /\ obj.major = 0
        /\ obj.minor \in {8, 9}
        /\ text = str(obj.minor)

\* C9 as stated: for every raw value v = 0, 1..7 or v >= 10,
\* from_robtop_value(v).to_robtop_value() equals v.
C9_EveryAcceptedValueRoundTrips ==
    (pc = "from_robtop_value.to_robtop_value" /\ obj.value >= 0) =>
        result.value = obj.value

\* C9 as the code has it: from_robtop_value(v).to_robtop_value() equals v
\* for v in 0..7, 10, 11 and v >= 19; for v in 12..16 it is v - 9, for 17
\* it is 10 and for 18 it is 11.
C9_RawValueRoundTrip ==
    (pc = "from_robtop_value.to_robtop_value" /\ obj.value >= 0) =>
        IF obj.value \in 12 .. 16 THEN result.value = obj.value - 9
        ELSE IF obj.value = 17 THEN result.value = 10
        ELSE IF obj.value = 18 THEN result.value = 11
        ELSE result.value = obj.value

\* The raw value 11 came back as 11.
C9_Witness ==
    /\ pc = "from_robtop_value.to_robtop_value"
    /\ obj.value = 11
    /\ result.value = 11

\* The raw value 18 came back as 11.
C9_WitnessFolded ==
    /\ pc = "from_robtop_value.to_robtop_value"
    /\ obj.value = 18
    /\ result.value = 11

(***************************************************************************)
(* SpecRecording: a RecordingItem is written as text.                      *)
(***************************************************************************)
Fractions == {<<>>, <<5>>, <<2, 5>>}

RecordingItems ==
    {RecordingItem(Timestamp(whole, frac), previous, next, secondary) :
        whole \in 0 .. MaxWhole, frac \in Fractions,
        previous \in BOOLEAN, next \in BOOLEAN, secondary \in BOOLEAN}

\* The strings handed to RecordingItem.from_robtop.
ItemChars == {"1", "2", "5", ".", ";"}

ItemTexts == SeqsUpTo(ItemChars, MaxText)

InitRecording ==
    /\ order = "little"
    /\ binary = <<>>
    /\ result = None
    /\ \/ /\ pc = "new"
          /\ obj \in RecordingItems
          /\ text = EMPTY
       \/ /\ pc = "encoded"
          /\ obj = [cls |-> "RecordingItem"]
          /\ text \in ItemTexts

NextRecording == ToRobTop \/ FromRobTop

SpecRecording == InitRecording /\ [][NextRecording]_vars

\* C10: to_robtop emits the marker and a separator only if previous; the
\* timestamp text and a separator always; the marker only if next, then a
\* separator always; one more separator only if secondary.
C10_RecordingItemText ==
    (pc = "encoded" /\ obj.cls = "RecordingItem" /\ IsValue(obj)) =>
        text = (IF obj.previous THEN <<"1", ";">> ELSE <<>>)
               \o float_str(obj.timestamp) \o <<";">>
               \o (IF obj.next THEN <<"1">> ELSE <<>>) \o <<";">>
               \o (IF obj.secondary THEN <<";">> ELSE <<>>)

\* timestamp 1.5 with previous only was written as 1;1.5;;
C10_Witness ==
    /\ pc = "encoded"
    /\ obj = RecordingItem(Timestamp(1, <<5>>), TRUE, FALSE, FALSE)
    /\ text = <<"1", ";", "1", ".", "5", ";", ";">>

\* C11: for every RecordingItem, integral or fractional timestamp and every
\* combination of flags, from_robtop(item.to_robtop()) is the identical
\* item.
C11_RecordingItemRoundTrip ==
    (pc = "decoded" /\ obj.cls = "RecordingItem" /\ IsValue(obj)) => result = obj

\* Items with a fractional one-digit timestamp do round-trip.
RecordingItemRoundTripFractional ==
    (pc = "decoded" /\ obj.cls = "RecordingItem" /\ IsValue(obj)
     /\ obj.timestamp.whole < 10 /\ obj.timestamp.frac # <<>>) => result = obj

\* A timestamp text in the claimed grammar: one or more digits, then
\* optionally "." and digits.
IsTimestampText(parts) ==
    /\ Len(parts) \in 1 .. 2
    /\ parts[1] # EMPTY
    /\ \A i \in DOMAIN parts : \A j \in DOMAIN parts[i] : IsDigit(parts[i][j])

\* C14: a string made of a timestamp of one or more digits with an optional
\* fractional part, then SEP SEP, decodes to an item with that timestamp.
C14_TimestampOfSeveralDigits ==
    (pc = "decoded" /\ obj = [cls |-> "RecordingItem"] /\ Len(text) > 2) =>
        LET timestamp == SubSeq(text, 1, Len(text) - 2)
        IN (/\ SubSeq(text, Len(text) - 1, Len(text)) = <<";", ";">>
            /\ IsTimestampText(split_string(timestamp, "."))) =>
               result = RecordingItem(float(timestamp), FALSE, FALSE, FALSE)

\* A one-digit timestamp with SEP SEP is decoded as claimed.
TimestampOfOneDigit ==
    (pc = "decoded" /\ obj = [cls |-> "RecordingItem"]
     /\ text = <<"2", ".", "5", ";", ";">>) =>
        result = RecordingItem(Timestamp(2, <<5>>), FALSE, FALSE, FALSE)

(***************************************************************************)
(* SpecRecordings: a Recording is written as text and read back, and any   *)
(* text is read as a Recording.                                            *)
(***************************************************************************)
ListedItems ==
    {RecordingItem(Timestamp(whole, frac), previous, next, secondary) :
        whole \in {1, 2, 12}, frac \in {<<>>, <<5>>},
        previous \in BOOLEAN, next \in BOOLEAN, secondary \in BOOLEAN}

RecordingChars == {"1", ".", ";", "x"}

InitRecordings ==
    /\ order = "little"
    /\ binary = <<>>
    /\ result = None
    /\ \/ /\ pc = "new"
          /\ obj \in {Recording(items) : items \in SeqsUpTo(ListedItems, MaxItems)}
          /\ text = EMPTY
       \/ /\ pc = "encoded"
          /\ obj = [cls |-> "Recording"]
          /\ text \in SeqsUpTo(RecordingChars, MaxRecordingText)

NextRecordings == ToRobTop \/ FromRobTop

SpecRecordings == InitRecordings /\ [][NextRecordings]_vars

\* C12: Recording.to_robtop is the items' encodings back to back in order,
\* and Recording.from_robtop of that text yields the same number of items,
\* each equal to the original, in the same order.
C12_RecordingRoundTrip ==
    (obj.cls = "Recording" /\ IsValue(obj)) =>
        /\ pc = "encoded" => text = Recording_collect_robtop(obj.items)
        /\ pc = "decoded" =>
               /\ Len(result.items) = Len(obj.items)
               /\ \A i \in DOMAIN obj.items : result.items[i] = obj.items[i]

\* Recordings whose items have fractional one-digit timestamps round-trip.
RecordingRoundTripFractional ==
    (pc = "decoded" /\ obj.cls = "Recording" /\ IsValue(obj)
     /\ \A i \in DOMAIN obj.items :
            obj.items[i].timestamp.whole < 10 /\ obj.items[i].timestamp.frac # <<>>)
        => result = obj

\* The characters of the text covered by the item matches.
Covered(string) ==
    {i \in DOMAIN string :
        \E k \in DOMAIN RECORDING_ITEM_finditer(string, 1) :
            /\ RECORDING_ITEM_finditer(string, 1)[k].start <= i
            /\ i < RECORDING_ITEM_finditer(string, 1)[k].end}

\* C13: Recording.from_robtop either accounts for its entire input as
\* consecutive item matches or reports a format error; characters that
\* belong to no item match are never silently skipped.
C13_WholeInputOrError ==
    (pc = "decoded" /\ obj = [cls |-> "Recording"]) =>
        (IsError(result) \/ Covered(text) = DOMAIN text)

\* A version satisfying the invariant of the class.
IsVersion(v) == ~IsError(v) /\ v.major >= 0 /\ v.minor \in 0 .. 9

C15_WitnessNegativeText ==
    /\ pc = "decoded"
    /\ obj = [cls |-> "Version"]
    /\ text = <<"-", "1">>
    /\ IsError(result)

(***************************************************************************)
(* SpecPacked: the packed fields of the base Object (the flag byte, the    *)
(* z word, the group ids) are written and read for every value of          *)
(* interest.                                                               *)
(***************************************************************************)
FlagNames ==
    <<"h_flipped", "v_flipped", "do_not_fade", "do_not_enter",
      "group_parent", "high_detail", "glow", "special_checked">>

\* The Object whose flags are the bits of byte, in the order of FlagNames.
WithFlags(byte) ==
    [f \in DOMAIN New("Object", 1) |->
        IF \E i \in DOMAIN FlagNames : FlagNames[i] = f
        THEN (byte \div (2 ^ ((CHOOSE i \in DOMAIN FlagNames : FlagNames[i] = f) - 1))) % 2 = 1
        ELSE New("Object", 1)[f]]

ZOrders ==
    ((-Spread) .. Spread) \cup ((2 ^ 13 - Spread) .. (2 ^ 13 + Spread)) \cup {-(2 ^ 13), 40000}

WideGroups == {3, 2 ^ 15 - 1, 2 ^ 15, 40000, 2 ^ 16 - 1}

PackedObjects ==
    {WithFlags(byte) : byte \in 0 .. 255}
    \cup {[New("Object", 1) EXCEPT !.z_layer = z_layer, !.z_order = z_order] :
              z_layer \in ZLayerValues, z_order \in ZOrders}
    \cup {[New("Object", 1) EXCEPT !.groups = groups] :
              groups \in {g \in SUBSET WideGroups : Cardinality(g) <= MaxArgs}}

\* Where the flag byte and the z word stand in an encoded Object: after the
\* id and the four floats.
FlagByteAt == 2 + 4 * 4 + 1

ZWordAt == FlagByteAt + 1

\* The encoding of a default Object with the bytes from `at` on replaced.
Patched(at, bytes, o) ==
    [i \in DOMAIN to_binary(New("Object", 1), o) |->
        IF i >= at /\ i < at + Len(bytes) THEN bytes[i - at + 1]
        ELSE to_binary(New("Object", 1), o)[i]]

ZWords ==
    {ShiftLeft(z_layer, 13) + z_order :
        z_layer \in ZLayerValues, z_order \in (0 .. Spread) \cup ((2 ^ 13 - 1 - Spread) .. (2 ^ 13 - 1))}

InitPacked ==
    /\ order \in ByteOrders
    /\ text = <<>>
    /\ result = None
    /\ \/ /\ pc = "new"
          /\ obj \in PackedObjects
          /\ binary = <<>>
       \/ /\ pc = "encoded"
          /\ obj = [cls |-> "Object"]
          /\ \/ \E byte \in 0 .. 255 : binary = Patched(FlagByteAt, <<byte>>, order)
             \/ \E word \in ZWords : binary = Patched(ZWordAt, write_u16(word, order), order)

SpecPacked == InitPacked /\ [][NextRoundTrip]_vars

\* The flags of an object as a byte, bit i - 1 for FlagNames[i].
FlagBits(object) ==
    LET bit(i) == IF object[FlagNames[i]] THEN 2 ^ (i - 1) ELSE 0
    IN bit(1) + bit(2) + bit(3) + bit(4) + bit(5) + bit(6) + bit(7) + bit(8)

\* C16: the flag byte has bit 0 to bit 7 for h-flipped, v-flipped,
\* do-not-fade, do-not-enter, group-parent, high-detail, glow and
\* special-checked: the encoded byte has exactly the bits of the true
\* flags, and decoding any byte recovers each flag from its own bit.
C16_FlagByte ==
    obj.cls = "Object" =>
        /\ (pc # "new" /\ IsInstance(obj)) => binary[FlagByteAt] = FlagBits(obj)
        /\ pc = "decoded" =>
               /\ ~IsError(result)
               /\ FlagBits(result) = binary[FlagByteAt]

\* The byte 10100101 was decoded to h_flipped, do_not_fade, high_detail
\* and special_checked.
C16_Witness ==
    /\ pc = "decoded"
    /\ obj = [cls |-> "Object"]
    /\ binary[FlagByteAt] = 165
    /\ result = WithFlags(165)

\* All eight flags were encoded as the byte 255.
C16_WitnessEncode ==
    /\ pc = "encoded"
    /\ IsInstance(obj)
    /\ obj = WithFlags(255)
    /\ binary[FlagByteAt] = 255

\* The u16 at ZWordAt of the sink.
ZWord == WordAt(ZWordAt)

GroupWords == [i \in 1 .. WordAt(GroupsAt) |-> WordAt(GroupsAt + 2 * i)]

\* C18: encoding never rejects an over-wide value: a group id or block id
\* above 15 bits, and any other packed sub-field wider than its bits, is
\* truncated by masking to that width.
C18_WideValuesMasked ==
    (obj.cls = "Object" /\ pc # "new" /\ IsInstance(obj)) =>
        /\ ZWord % (2 ^ 13) = obj.z_order % (2 ^ 13)
        /\ \A i \in DOMAIN GroupWords : GroupWords[i] < 2 ^ 15
        /\ {GroupWords[i] : i \in DOMAIN GroupWords} = {g % (2 ^ 15) : g \in obj.groups}

\* The packed sub-fields that the code does mask: z_order here, and the
\* block ids under SpecCollision.
WideZOrderMasked ==
    (obj.cls = "Object" /\ pc # "new" /\ IsInstance(obj)) =>
        ZWord % (2 ^ 13) = obj.z_order % (2 ^ 13)

\* C19: a CollisionTrigger's encoding carries the fields of its trait
\* bundles, activate_group and target_group_id, and from_binary restores
\* them: two CollisionTriggers that differ only in these fields encode to
\* different bytes.
C19_CollisionTriggerBundles ==
    (obj.cls = "CollisionTrigger" /\ IsInstance(obj)) =>
        /\ (pc = "encoded"
            /\ obj # [obj EXCEPT !.activate_group = FALSE, !.target_group_id = 0]) =>
               binary # to_binary([obj EXCEPT !.activate_group = FALSE,
                                              !.target_group_id = 0], order)
        /\ pc = "decoded" =>
               /\ result.activate_group = obj.activate_group
               /\ result.target_group_id = obj.target_group_id

\* What a CollisionTrigger's encoding does carry is restored.
CollisionTriggerOwnFields ==
    (obj.cls = "CollisionTrigger" /\ IsInstance(obj) /\ pc = "decoded") =>
        result = [obj EXCEPT !.activate_group = FALSE, !.target_group_id = 0]

(***************************************************************************)
(* SpecGuards: is_trigger and has_target_group are called on an instance   *)
(* of any class.                                                           *)
(***************************************************************************)
\* The bases named in each class statement.
Bases(cls) ==
    CASE cls \in {"Coin", "Text", "Teleport", "AnimatedObject", "CollisionBlock",
                  "Trigger"} -> {"Object"}
      [] cls = "HasAdditionalGroup" -> {"HasTargetGroup"}
      [] cls = "Orb" -> {"HasMultiActivate", "Object"}
      [] cls = "PickupItem" -> {"HasTargetGroup", "HasItem", "Object"}
      [] cls = "ColorTrigger" -> {"HasColor", "HasDuration", "Trigger"}
      [] cls = "PulseTrigger" -> {"Trigger"}
      [] cls = "MoveTrigger" -> {"HasEasing", "HasDuration", "Trigger"}
      [] cls = "SpawnTrigger" -> {"HasTargetGroup", "HasDelay", "Trigger"}
      [] cls = "StopTrigger" -> {"HasTargetGroup", "Trigger"}
      [] cls \in {"RotateTrigger", "FollowTrigger"} ->
            {"HasEasing", "HasAdditionalGroup", "HasDuration", "Trigger"}
      [] cls = "ShakeTrigger" -> {"HasDuration", "Trigger"}
      [] cls \in {"AnimationTrigger", "TouchTrigger"} -> {"HasTargetGroup", "Trigger"}
      [] cls = "CountTrigger" ->
            {"HasMultiActivate", "HasActivateGroup", "HasCount", "HasItem", "Trigger"}
      [] cls = "InstantCountTrigger" -> {"HasActivateGroup", "HasCount", "HasItem", "Trigger"}
      [] cls = "PickupTrigger" -> {"HasCount", "HasItem", "Trigger"}
      [] cls = "FollowPlayerYTrigger" -> {"HasDelay", "HasTargetGroup", "Trigger"}
      [] cls \in {"OnDeathTrigger", "CollisionTrigger"} ->
            {"HasActivateGroup", "HasTargetGroup", "Trigger"}
      [] OTHER -> {}

\* The classes a class derives from, itself included; no class is more
\* than three statements away from its root.
Ancestors(cls) ==
    LET up(S) == S \cup UNION {Bases(c) : c \in S}
    IN up(up(up({cls})))

\* A variant that looks at the class and its direct bases only.
is_instance_direct(object, cls) == cls \in {object.cls} \cup Bases(object.cls)

is_instance(object, cls) == cls \in Ancestors(object.cls)

\* object.is_trigger(): Trigger's method for Trigger and its subclasses,
\* Object's for the others.
Object_is_trigger(self) == FALSE

Trigger_is_trigger(self) == TRUE

is_trigger(object) ==
    IF is_instance(object, "Trigger") THEN Trigger_is_trigger(object)
    ELSE Object_is_trigger(object)

has_target_group(object) == is_instance(object, "HasTargetGroup")

CallIsTrigger ==
    /\ pc = "new"
    /\ result' = [value |-> is_trigger(obj)]
    /\ pc' = "is_trigger"
    /\ UNCHANGED <<order, obj, binary, text>>

CallHasTargetGroup ==
    /\ pc = "new"
    /\ result' = [value |-> has_target_group(obj)]
    /\ pc' = "has_target_group"
    /\ UNCHANGED <<order, obj, binary, text>>

InitGuards ==
    /\ pc = "new"
    /\ order \in ByteOrders
    /\ \E cls \in Classes : obj \in Variants(New(cls, 1), MaxGuardChanged)
    /\ binary = <<>>
    /\ text = <<>>
    /\ result = None

NextGuards == CallIsTrigger \/ CallHasTargetGroup

SpecGuards == InitGuards /\ [][NextGuards]_vars

\* C20: is_trigger is true exactly for Trigger and its specializations, and
\* has_target_group exactly for the variants composing the has-target-group
\* bundle, directly or through has-additional-group.
C20_Guards ==
    /\ pc = "is_trigger" =>
           result.value = (obj.cls \notin {"Object", "Coin", "Text", "Teleport",
                                           "AnimatedObject", "CollisionBlock", "Orb",
                                           "PickupItem"})
    /\ pc = "has_target_group" =>
           result.value = (obj.cls \in {"PickupItem", "SpawnTrigger", "StopTrigger",
                                        "RotateTrigger", "FollowTrigger",
                                        "AnimationTrigger", "TouchTrigger",
                                        "FollowPlayerYTrigger", "OnDeathTrigger",
                                        "CollisionTrigger"})

\* has_target_group was true for a RotateTrigger, which has the bundle
\* through HasAdditionalGroup.
C20_Witness ==
    /\ pc = "has_target_group"
    /\ obj.cls = "RotateTrigger"
    /\ result.value

\* is_trigger was false for a PickupItem.
C20_WitnessNotTrigger ==
    /\ pc = "is_trigger"
    /\ obj.cls = "PickupItem"
    /\ ~result.value

(***************************************************************************)
(* SpecTruncated: a class reads a source that is a prefix of the encoding  *)
(* of one of its instances (the whole encoding included), or an encoding   *)
(* whose group count, or whose Text content length, was raised.            *)
(***************************************************************************)
Subjects(cls) ==
    {New(cls, 1), [New(cls, 1) EXCEPT !.groups = {5, 3, 9}]}
    \cup (IF cls = "Text" THEN {[New(cls, 1) EXCEPT !.content = <<72, 233>>]} ELSE {})

Prefixes(b) == {SubSeq(b, 1, n) : n \in 0 .. Len(b)}

\* b with the bytes from position `at` on replaced by `bytes`
Overwritten(b, at, bytes) ==
    [i \in 1 .. Len(b) |-> IF i >= at /\ i < at + Len(bytes) THEN bytes[i - at + 1] ELSE b[i]]

\* The encoding of self with its group count raised by `more`, and for a
\* Text with its content length raised by `more`.
Overcounted(self, more, o) ==
    LET b == to_binary(self, o)
        head == Len(Object_to_binary(self, o))
    IN {Overwritten(b, GroupsAt,
                    write_u16(Cardinality(self.groups) + more, o))}
       \cup (IF self.cls = "Text"
             THEN {Overwritten(b, head + 1, write_u16(Len(b) - head - 2 + more, o))}
             ELSE {})

InitTruncated ==
    /\ pc = "encoded"
    /\ order \in ByteOrders
    /\ text = <<>>
    /\ result = None
    /\ \E cls \in Classes :
          /\ obj = [cls |-> cls]
          /\ \E self \in Subjects(cls) :
                \/ binary \in Prefixes(to_binary(self, order))
                \/ \E more \in 1 .. MaxArgs : binary \in Overcounted(self, more, order)

SpecTruncated == InitTruncated /\ [][Decode]_vars

\* The source holds the whole encoding of an instance of the reading class.
Complete == \E self \in Subjects(obj.cls) : binary = to_binary(self, order)

\* C22: decoding from a source that ends before the layout is complete
\* fails with a truncation error and returns no object.
C22_TruncatedSource ==
    (pc = "decoded" /\ ~Complete) => result = Raise("Truncated")

\* A Text source whose content length announces one byte more than follows
\* was read: truncation error.
C22_Witness ==
    /\ pc = "decoded"
    /\ obj.cls = "Text"
    /\ \E self \in Subjects("Text") :
          /\ self.content # <<>>
          /\ Len(binary) = Len(to_binary(self, order))
          /\ binary # to_binary(self, order)
          /\ SubSeq(binary, 1, GroupsAt + 1) = SubSeq(to_binary(self, order), 1, GroupsAt + 1)
    /\ result = Raise("Truncated")

\* A complete source decodes to the instance.
CompleteSourceDecodes ==
    (pc = "decoded" /\ Complete) => result \in Subjects(obj.cls)

(***************************************************************************)
(* SpecConcurrent: two calls run at once, each on its own source or sink,  *)
(* the steps of one interleaved with the steps of the other at every field *)
(* boundary.  A call either constructs an Object, adds group ids to it and *)
(* writes it to its sink ("new"), or reads an Object from its source and   *)
(* adds group ids to it ("from_binary").                                   *)
(*                                                                         *)
(* Here every variable holds one entry per call: pc[c] is the number of    *)
(* steps call c has taken, text[c] its arguments [kind, ids], binary[c]    *)
(* its source or sink, result[c] the cursor of its Reader and the values   *)
(* read so far.  obj is the heap: obj.objects[c] is the instance of call   *)
(* c, whose field groups is a reference into obj.sets, the set objects     *)
(* allocated so far.                                                       *)
(***************************************************************************)
Calls == {1, 2}

ConcurrentIds == {<<>>, <<9, 3>>}

\* The objects whose encodings are the sources of the reading calls.
ConcurrentSources ==
    <<New("Object", 1), [New("Object", 1) EXCEPT !.groups = {5, 3}, !.link_id = 258]>>

\* The arguments of a call: what it does, the ids it adds and, for a
\* reading call, which source it reads.
Scripts ==
    {[kind |-> "new", ids |-> ids] : ids \in ConcurrentIds}
    \cup {[kind |-> "from_binary", ids |-> ids, source |-> i] :
             ids \in ConcurrentIds, i \in DOMAIN ConcurrentSources}

\* The reads of Object.from_binary, in order.
ReadKinds ==
    <<"u16", "f32", "f32", "f32", "f32", "u8", "u16",
      "u16", "u16", "u16", "u16", "hsv", "hsv", "groups", "u16">>

\* The number of bytes of each write of Object.to_binary, in order, for an
\* instance of n groups: id, x, y, rotation, scale, the flag byte, the z
\* word, the editor layers, the color ids, the two HSVs, the group count,
\* the group ids and the link id.
WriteWidths(n) == <<2, 4, 4, 4, 4, 1, 2, 2, 2, 2, 2, 10, 10, 2, 2 * n, 2>>

RECURSIVE Sum(_, _)
Sum(widths, k) == IF k = 0 THEN 0 ELSE widths[k] + Sum(widths, k - 1)

\* What the k-th write of Object.to_binary appends for the instance as it
\* is at that moment.
Slice(b, end, width) == SubSeq(b, end - width + 1, end)

Written(self, k, o) ==
    Slice(Object_to_binary(self, o),
          Sum(WriteWidths(Cardinality(self.groups)), k),
          WriteWidths(Cardinality(self.groups))[k])

\* a variant in which the default of `groups` is one set object made once
shared_set(sets) == 1

\* field(factory=set): every construction calls set() and gets a set
\* object that did not exist before.
factory_set(sets) == Len(sets) + 1

Allocated(sets, ref, S) == IF ref > Len(sets) THEN Append(sets, S) ELSE sets

\* The instance of call c with its group set in place of the reference.
Deref(c) == [obj.objects[c] EXCEPT !.groups = obj.sets[@]]

Steps(kind) == IF kind = "new" THEN 2 + Len(WriteWidths(0)) ELSE Len(ReadKinds) + 2

InitConcurrent ==
    /\ pc = [c \in Calls |-> 0]
    /\ order \in ByteOrders
    /\ obj = [objects |-> [c \in Calls |-> None], sets |-> <<>>]
    /\ result = [c \in Calls |-> [c |-> Cursor(1), v |-> <<>>]]
    /\ text \in [Calls -> Scripts]
    /\ binary = [c \in Calls |->
                    IF text[c].kind = "new" THEN <<>>
                    ELSE to_binary(ConcurrentSources[text[c].source], order)]

\* Object(1)
ConstructObject(c) ==
    /\ text[c].kind = "new"
    /\ pc[c] = 0
    /\ obj' = [objects |-> [obj.objects EXCEPT
                               ![c] = [New("Object", 1) EXCEPT
                                          !.groups = factory_set(obj.sets)]],
               sets |-> Allocated(obj.sets, factory_set(obj.sets), {})]
    /\ pc' = [pc EXCEPT ![c] = 1]
    /\ UNCHANGED <<order, binary, text, result>>

\* object.add_groups(*ids), on the instance the call made or read
AddGroupsOf(c) ==
    /\ pc[c] = (IF text[c].kind = "new" THEN 1 ELSE Len(ReadKinds) + 1)
    /\ obj' = [obj EXCEPT !.sets[obj.objects[c].groups] = update(@, text[c].ids)]
    /\ pc' = [pc EXCEPT ![c] = @ + 1]
    /\ UNCHANGED <<order, binary, text, result>>

\* one write of object.to_binary(sink, order)
WriteField(c) ==
    /\ text[c].kind = "new"
    /\ pc[c] \in 2 .. (Steps("new") - 1)
    /\ binary' = [binary EXCEPT ![c] = @ \o Written(Deref(c), pc[c] - 1, order)]
    /\ pc' = [pc EXCEPT ![c] = @ + 1]
    /\ UNCHANGED <<order, obj, text, result>>

\* The Reader of a call after a read: its cursor, and the values read.
AfterRead(reader, got) ==
    [c |-> [p |-> got.p, ok |-> got.ok], v |-> Append(reader.v, got.v)]

\* one read of Object.from_binary(source, order)
ReadField(c) ==
    /\ text[c].kind = "from_binary"
    /\ pc[c] < Len(ReadKinds)
    /\ result' = [result EXCEPT ![c] =
                     AfterRead(@, read_one(binary[c], @.c, ReadKinds[pc[c] + 1], order))]
    /\ pc' = [pc EXCEPT ![c] = @ + 1]
    /\ UNCHANGED <<order, obj, binary, text>>

\* return cls(...): the instance of the values read; its groups are the
\* set the comprehension built.
ReturnObject(c) ==
    /\ text[c].kind = "from_binary"
    /\ pc[c] = Len(ReadKinds)
    /\ obj' = [objects |-> [obj.objects EXCEPT
                               ![c] = [Object_new("Object", NoFields,
                                                  SubSeq(result[c].v, 1, 7),
                                                  [p |-> result[c].c.p, ok |-> result[c].c.ok,
                                                   v |-> SubSeq(result[c].v, 8, 15)]).r
                                          EXCEPT !.groups = Len(obj.sets) + 1]],
               sets |-> Append(obj.sets, result[c].v[14])]
    /\ pc' = [pc EXCEPT ![c] = @ + 1]
    /\ UNCHANGED <<order, binary, text, result>>

NextConcurrent ==
    \E c \in Calls :
        \/ ConstructObject(c)
        \/ AddGroupsOf(c)
        \/ WriteField(c)
        \/ ReadField(c)
        \/ ReturnObject(c)

SpecConcurrent == InitConcurrent /\ [][NextConcurrent]_vars

Finished(c) == pc[c] = Steps(text[c].kind)

\* What call c gives when it runs alone: the instance, and for "new" the
\* bytes in its sink.
Alone(c) ==
    IF text[c].kind = "new"
    THEN [new |-> [New("Object", 1) EXCEPT !.groups = Range(text[c].ids)]]
    ELSE [read |-> [from_binary("Object", binary[c], order)
                       EXCEPT !.groups = @ \cup Range(text[c].ids)]]

\* C24: interleaved calls on distinct sources and sinks each give what they
\* give alone, and no two instances share a group set, so the ids added to
\* one instance are in no other.
C24_CallsIsolated ==
    /\ \A c \in Calls :
          (Finished(c) /\ text[c].kind = "new") =>
              /\ Deref(c) = Alone(c).new
              /\ binary[c] = to_binary(Alone(c).new, order)
    /\ \A c \in Calls :
          (Finished(c) /\ text[c].kind = "from_binary") => Deref(c) = Alone(c).read
    /\ \A c \in Calls : \A d \in Calls \ {c} :
          (obj.objects[c] # None /\ obj.objects[d] # None) =>
              obj.objects[c].groups # obj.objects[d].groups

\* Both calls are done; one constructed an Object, added 9 and 3 and wrote
\* it while the other read an Object holding 5 and 3 and added 9 and 3.
C24_Witness ==
    /\ \A c \in Calls : Finished(c)
    /\ text[1] = [kind |-> "new", ids |-> <<9, 3>>]
    /\ text[2].kind = "from_binary"
    /\ text[2].ids = <<9, 3>>
    /\ Deref(1).groups = {3, 9}
    /\ Deref(2).groups = {3, 5, 9}
    /\ binary[1] = to_binary(Deref(1), order)

\* The writes of to_binary, one after the other, are its encoding.
WritesMakeEncoding ==
    \A c \in Calls :
        (Finished(c) /\ text[c].kind = "new") =>
            Len(binary[c]) = Sum(WriteWidths(Cardinality(Deref(c).groups)), Len(WriteWidths(0)))

(***************************************************************************)
(* gd/utils/_async.py: run(coro, loop, debug, set_to_none).                *)
(*                                                                         *)
(* SpecRun: one thread calls run up to MaxRuns times.  obj is the thread's *)
(* asyncio state: obj.loops the event loops made so far, each closed or    *)
(* not, and obj.current the loop set as the thread's current one (0 for    *)
(* None).  text holds the arguments and the locals of the call in          *)
(* progress, result what the last call returned or raised.  The coroutine  *)
(* returns or raises, and it may leave tasks pending on the loop; with     *)
(* tasks pending, cancel_all_tasks runs the loop again and that may raise. *)
(***************************************************************************)
\* asyncio.new_event_loop(): a loop that did not exist before
new_event_loop(loops) == Append(loops, [closed |-> FALSE, debug |-> FALSE])

NoLoop == 0

Idle == [loop |-> NoLoop, set_to_none |-> FALSE, debug |-> FALSE, shutdown |-> FALSE,
         created |-> NoLoop, outcome |-> "none", tasks |-> FALSE, runs |-> 0]

InitRun ==
    /\ pc = "idle"
    /\ order = "little"
    /\ binary = <<>>
    /\ text = Idle
    /\ result = None
    /\ \/ obj = [loops |-> <<>>, current |-> NoLoop]
       \/ obj = [loops |-> new_event_loop(<<>>), current |-> 1]

\* The call and its first lines: the two checks, then the loop is made when
\* none was given.
Run ==
    /\ pc \in {"idle", "done"}
    /\ text.runs < MaxRuns
    /\ \E given \in {NoLoop} \cup {l \in DOMAIN obj.loops : ~obj.loops[l].closed},
          set_to_none \in BOOLEAN, debug \in BOOLEAN,
          check \in {"ok", "running", "not a coroutine"} :
          IF check = "running"
          THEN /\ result' = Raise("RuntimeError")
               /\ pc' = "done"
               /\ text' = [Idle EXCEPT !.runs = text.runs + 1, !.loop = given]
               /\ obj' = obj
          ELSE IF check = "not a coroutine"
          THEN /\ result' = Raise("ValueError")
               /\ pc' = "done"
               /\ text' = [Idle EXCEPT !.runs = text.runs + 1, !.loop = given]
               /\ obj' = obj
          ELSE /\ result' = None
               /\ pc' = "try"
               /\ obj' = [obj EXCEPT !.loops = IF given = NoLoop THEN new_event_loop(@) ELSE @]
               /\ text' = [Idle EXCEPT !.runs = text.runs + 1,
                                       !.loop = IF given = NoLoop THEN Len(obj.loops) + 1
                                                ELSE given,
                                       !.created = IF given = NoLoop THEN Len(obj.loops) + 1
                                                   ELSE NoLoop,
                                       !.shutdown = (given = NoLoop),
                                       !.set_to_none = set_to_none,
                                       !.debug = debug]
    /\ UNCHANGED <<order, binary>>

\* try: asyncio.set_event_loop(loop); loop.set_debug(debug);
\* loop.run_until_complete(coro), which returns or raises
RunUntilComplete ==
    /\ pc = "try"
    /\ obj' = [obj EXCEPT !.current = text.loop, !.loops[text.loop].debug = text.debug]
    /\ \E outcome \in {"returned", "raised"}, tasks \in BOOLEAN :
          text' = [text EXCEPT !.outcome = outcome, !.tasks = tasks]
    /\ pc' = "finally"
    /\ UNCHANGED <<order, binary, result>>

\* shutdown_loop(loop), called when run made the loop: stop, cancel the
\* pending tasks, shut the asynchronous generators down; finally close.
\* When it raises, run ends there with that exception.
shutdown_loop ==
    /\ pc = "finally"
    /\ text.shutdown
    /\ obj' = [obj EXCEPT !.loops[text.loop].closed = TRUE]
    /\ \/ /\ pc' = "reset"
          /\ result' = result
       \/ /\ text.tasks
          /\ pc' = "done"
          /\ result' = Raise("cancel_all_tasks")
    /\ UNCHANGED <<order, binary, text>>

\* The rest of the finally block: the thread's current loop becomes None or
\* a new loop, and run returns what the coroutine returned or raises what
\* it raised.
SetNextLoop ==
    /\ \/ pc = "reset"
       \/ pc = "finally" /\ ~text.shutdown
    /\ obj' = IF text.set_to_none THEN [obj EXCEPT !.current = NoLoop]
              ELSE [loops |-> new_event_loop(obj.loops), current |-> Len(obj.loops) + 1]
    /\ result' = IF text.outcome = "returned" THEN [returned |-> TRUE]
                 ELSE Raise("coroutine")
    /\ pc' = "done"
    /\ UNCHANGED <<order, binary, text>>

NextRun == Run \/ RunUntilComplete \/ shutdown_loop \/ SetNextLoop

SpecRun == InitRun /\ [][NextRun]_vars

\* run was called without a loop, made one, and has returned or raised.
RunMadeLoop == pc = "done" /\ text.created # NoLoop

\* C25: when run(coro) is called without a loop, the loop it creates is
\* closed by the time run returns or raises, and afterwards the thread's
\* current event loop is a fresh loop (None when set_to_none is true),
\* never the closed one.
C25_LoopClosedAndReplaced ==
    RunMadeLoop =>
        /\ obj.loops[text.created].closed
        /\ obj.current # text.created
        /\ IF text.set_to_none THEN obj.current = NoLoop
           ELSE /\ obj.current = Len(obj.loops)
                /\ obj.current > text.created
                /\ ~obj.loops[obj.current].closed

\* The loop run made is closed when run has returned or raised.
CreatedLoopClosed == RunMadeLoop => obj.loops[text.created].closed

\* Unless shutdown_loop raised, the current loop is None or a fresh one.
ReplacedUnlessShutdownRaised ==
    (RunMadeLoop /\ result # Raise("cancel_all_tasks")) =>
        IF text.set_to_none THEN obj.current = NoLoop
        ELSE obj.current = Len(obj.loops) /\ ~obj.loops[obj.current].closed

(***************************************************************************)
(* gd/entity.py: an Entity and the client attached to it.  A client is a   *)
(* number from 1 on; NoClient stands for None.                             *)
(***************************************************************************)
NoClient == 0

Clients == 1 .. MaxClients

Entity(cls, id) == [cls |-> cls, id |-> id, client_unchecked |-> NoClient]

\* the property client: its getter, setter and deleter
Entity_client(self) ==
    IF self.client_unchecked = NoClient THEN Raise("ClientError")
    ELSE [value |-> self.client_unchecked]

Entity_client_set(self, client) == [self EXCEPT !.client_unchecked = client]

\* a variant whose deleter leaves the client in place
Entity_client_kept(self) == self

Entity_client_del(self) == [self EXCEPT !.client_unchecked = NoClient]

Entity_attach_client_unchecked(self, client) == [self EXCEPT !.client_unchecked = client]

Entity_attach_client(self, client) == Entity_client_set(self, client)

Entity_detach_client(self) == Entity_client_del(self)

(***************************************************************************)
(* SpecEntity: two entities; any of the five operations is applied to      *)
(* either, and the client of either is read.  obj[e] is entity e, text[e]  *)
(* the client handed to the last attaching operation on e (NoClient after  *)
(* a detaching one, and at the start), result what the last read gave.     *)
(***************************************************************************)
Entities == {1, 2}

InitEntity ==
    /\ pc = "new"
    /\ order = "little"
    /\ binary = <<>>
    /\ obj = [e \in Entities |-> Entity("Entity", e)]
    /\ text = [e \in Entities |-> NoClient]
    /\ result = None

AttachClientUnchecked ==
    \E e \in Entities, client \in Clients \cup {NoClient} :
        /\ obj' = [obj EXCEPT ![e] = Entity_attach_client_unchecked(@, client)]
        /\ text' = [text EXCEPT ![e] = client]
        /\ pc' = "attach_client_unchecked"
        /\ UNCHANGED <<order, binary, result>>

AttachClient ==
    \E e \in Entities, client \in Clients :
        /\ obj' = [obj EXCEPT ![e] = Entity_attach_client(@, client)]
        /\ text' = [text EXCEPT ![e] = client]
        /\ pc' = "attach_client"
        /\ UNCHANGED <<order, binary, result>>

DetachClient ==
    \E e \in Entities :
        /\ obj' = [obj EXCEPT ![e] = Entity_detach_client(@)]
        /\ text' = [text EXCEPT ![e] = NoClient]
        /\ pc' = "detach_client"
        /\ UNCHANGED <<order, binary, result>>

\* entity.client = client
AssignClient ==
    \E e \in Entities, client \in Clients :
        /\ obj' = [obj EXCEPT ![e] = Entity_client_set(@, client)]
        /\ text' = [text EXCEPT ![e] = client]
        /\ pc' = "client.setter"
        /\ UNCHANGED <<order, binary, result>>

\* del entity.client
DeleteClient ==
    \E e \in Entities :
        /\ obj' = [obj EXCEPT ![e] = Entity_client_del(@)]
        /\ text' = [text EXCEPT ![e] = NoClient]
        /\ pc' = "client.deleter"
        /\ UNCHANGED <<order, binary, result>>

\* entity.client
ReadClient ==
    \E e \in Entities :
        /\ result' = [entity |-> e, client |-> Entity_client(obj[e])]
        /\ pc' = "client"
        /\ UNCHANGED <<order, obj, binary, text>>

NextEntity ==
    \/ AttachClientUnchecked
    \/ AttachClient
    \/ DetachClient
    \/ AssignClient
    \/ DeleteClient
    \/ ReadClient

SpecEntity == InitEntity /\ [][NextEntity]_vars

\* C26: after any sequence of the operations, reading entity.client gives
\* the client attached last when the last operation attached one, and
\* raises ClientError otherwise; it never gives None.
C26_ClientOrError ==
    pc = "client" =>
        /\ result.client # [value |-> NoClient]
        /\ result.client = (IF text[result.entity] = NoClient THEN Raise("ClientError")
                            ELSE [value |-> text[result.entity]])

\* Entity 1 had a client attached and then none; entity 2 still has its
\* client: reading entity 1's client raised ClientError.
C26_Witness ==
    /\ pc = "client"
    /\ result = [entity |-> 1, client |-> Raise("ClientError")]
    /\ obj[2].client_unchecked = 2

\* The client attached last was read.
C26_WitnessAttached ==
    /\ pc = "client"
    /\ result = [entity |-> 2, client |-> [value |-> 1]]
    /\ obj[1].client_unchecked = 2

(***************************************************************************)
(* gd/comments.py: a comment passes the client on to its author, and a     *)
(* LevelComment to its level too.  gd.users.User is taken to attach and    *)
(* detach as Entity does; Level (gd/level.py) defines no method of its     *)
(* own for it.                                                             *)
(***************************************************************************)
User_attach_client_unchecked(self, client) == Entity_attach_client_unchecked(self, client)

User_attach_client(self, client) == Entity_attach_client(self, client)

User_detach_client(self) == Entity_detach_client(self)

UserComment_attach_client_unchecked(self, client) ==
    Entity_attach_client_unchecked(
        [self EXCEPT !.author = User_attach_client_unchecked(@, client)], client)

UserComment_attach_client(self, client) ==
    Entity_attach_client([self EXCEPT !.author = User_attach_client(@, client)], client)

UserComment_detach_client(self) ==
    Entity_detach_client([self EXCEPT !.author = User_detach_client(@)])

LevelComment_attach_client_unchecked(self, client) ==
    Entity_attach_client_unchecked(
        [self EXCEPT !.author = User_attach_client_unchecked(@, client),
                     !.level = Entity_attach_client_unchecked(@, client)], client)

\* a variant that does not pass the client on to the level
LevelComment_attach_client_author_only(self, client) ==
    Entity_attach_client([self EXCEPT !.author = User_attach_client(@, client)], client)

LevelComment_attach_client(self, client) ==
    Entity_attach_client(
        [self EXCEPT !.author = User_attach_client(@, client),
                     !.level = Entity_attach_client(@, client)], client)

LevelComment_detach_client(self) ==
    Entity_detach_client(
        [self EXCEPT !.author = User_detach_client(@),
                     !.level = Entity_detach_client(@)])

(***************************************************************************)
(* SpecComment: a UserComment or a LevelComment, which with its author     *)
(* (and level) holds one client or none; the three calls are made on the   *)
(* comment in any order.                                                   *)
(***************************************************************************)
Ids == 0 .. MaxId

Comments ==
    {[Entity("UserComment", id) EXCEPT !.client_unchecked = client]
        @@ [author |-> [Entity("User", a) EXCEPT !.client_unchecked = client]]
        : id \in Ids, a \in Ids, client \in Clients \cup {NoClient}}
    \cup
    {[Entity("LevelComment", id) EXCEPT !.client_unchecked = client]
        @@ [author |-> [Entity("User", a) EXCEPT !.client_unchecked = client],
            level |-> [Entity("Level", l) EXCEPT !.client_unchecked = client]]
        : id \in Ids, a \in Ids, l \in Ids, client \in Clients \cup {NoClient}}

InitComment ==
    /\ pc = "new"
    /\ order = "little"
    /\ binary = <<>>
    /\ obj \in Comments
    /\ text = <<>>
    /\ result = None

CommentAttachClientUnchecked ==
    \E client \in Clients \cup {NoClient} :
        /\ obj' = IF obj.cls = "UserComment"
                  THEN UserComment_attach_client_unchecked(obj, client)
                  ELSE LevelComment_attach_client_unchecked(obj, client)
        /\ result' = obj'
        /\ pc' = "attach_client_unchecked"
        /\ UNCHANGED <<order, binary, text>>

CommentAttachClient ==
    \E client \in Clients :
        /\ obj' = IF obj.cls = "UserComment" THEN UserComment_attach_client(obj, client)
                  ELSE LevelComment_attach_client(obj, client)
        /\ result' = obj'
        /\ pc' = "attach_client"
        /\ UNCHANGED <<order, binary, text>>

CommentDetachClient ==
    /\ obj' = IF obj.cls = "UserComment" THEN UserComment_detach_client(obj)
              ELSE LevelComment_detach_client(obj)
    /\ result' = obj'
    /\ pc' = "detach_client"
    /\ UNCHANGED <<order, binary, text>>

NextComment == CommentAttachClientUnchecked \/ CommentAttachClient \/ CommentDetachClient

SpecComment == InitComment /\ [][NextComment]_vars

\* C27: after any sequence of attach_client, attach_client_unchecked and
\* detach_client calls on a comment, the comment, its author and (for a
\* LevelComment) its level hold the same client, or all hold none.
C27_SameClient ==
    /\ obj.author.client_unchecked = obj.client_unchecked
    /\ obj.cls = "LevelComment" => obj.level.client_unchecked = obj.client_unchecked

\* A LevelComment that started without a client had client 2 attached: the
\* comment, its author and its level hold it.
C27_Witness ==
    /\ pc = "attach_client"
    /\ obj.cls = "LevelComment"
    /\ obj.client_unchecked = 2
    /\ obj.author.client_unchecked = 2
    /\ obj.level.client_unchecked = 2

\* A UserComment was detached: neither it nor its author holds a client.
C27_WitnessDetached ==
    /\ pc = "detach_client"
    /\ obj.cls = "UserComment"
    /\ obj.client_unchecked = NoClient
    /\ obj.author.client_unchecked = NoClient

(***************************************************************************)
(* gd/server/handler.py: the module body and RequestHandler.               *)
(*                                                                         *)
(* SpecHandler: a program imports gd.server.handler in order to wrap a     *)
(* handler in a RequestHandler and call it.  obj is what the program is    *)
(* about to do: the fail_on_error argument, whether it registers an error  *)
(* handler of its own with error(), and what the wrapped handler does.     *)
(* Importing executes the statements of the module body in order: binary   *)
(* is the set of names bound in the module so far, text the index of the   *)
(* next statement.  The module has no `from __future__ import              *)
(* annotations`, so the annotations of a def are evaluated when the def    *)
(* is executed.  The imports of modules outside this file are taken to     *)
(* succeed and bind their names.                                           *)
(***************************************************************************)
\* names of the builtins module that the module body refers to
Builtins == {"str", "int", "bool", "dict", "BaseException", "Exception"}

\* One entry per statement of the module body: the line it starts at, the
\* names it evaluates when executed, and the names it binds.
ModuleBody ==
    << [line |-> 1,   uses |-> {}, binds |-> {"Any", "Optional"}],
       [line |-> 3,   uses |-> {}, binds |-> {"Response", "json_response"}],
       [line |-> 4,   uses |-> {}, binds |-> {"field", "frozen"}],
       [line |-> 5,   uses |-> {}, binds |-> {"TypedDict"}],
       [line |-> 7,   uses |-> {}, binds |-> {"Enum"}],
       [line |-> 8,   uses |-> {}, binds |-> {"APPLICATION_JSON"}],
       [line |-> 9,   uses |-> {}, binds |-> {"Handler", "Headers"}],
       [line |-> 10,  uses |-> {}, binds |-> {"JSONType", "StringDict", "StringMapping"}],
       [line |-> 12,  uses |-> {}, binds |-> {"__all__"}],
       [line |-> 29,  uses |-> {"Enum"}, binds |-> {"ErrorType"}],
       [line |-> 48,  uses |-> {"ErrorType"}, binds |-> {"HTTP_STATUS_TO_ERROR_TYPE"}],
       [line |-> 57,  uses |-> {"TypedDict", "str", "Optional"}, binds |-> {"ErrorData"}],
       [line |-> 62,  uses |-> {}, binds |-> {"DEFAULT_STATUS_CODE"}],
       [line |-> 63,  uses |-> {"ErrorType"}, binds |-> {"DEFAULT_ERROR_TYPE"}],
       [line |-> 66,  uses |-> {"frozen", "int", "DEFAULT_STATUS_CODE", "ErrorType",
                                "DEFAULT_ERROR_TYPE", "Optional", "str", "Headers",
                                "ErrorData", "Any", "Response"},
                      binds |-> {"Error"}],
       [line |-> 84,  uses |-> {"Union", "Type", "BaseException", "Tuple"},
                      binds |-> {"ErrorExcept"}],
       [line |-> 85,  uses |-> {"Union", "Error", "web"}, binds |-> {"ErrorResult"}],
       [line |-> 86,  uses |-> {"Union", "NoReturn", "ErrorResult"}, binds |-> {"ErrorReturn"}],
       [line |-> 88,  uses |-> {"Callable", "web", "Exception", "Awaitable", "ErrorReturn"},
                      binds |-> {"ErrorHandler"}],
       [line |-> 91,  uses |-> {"ErrorResult", "web"}, binds |-> {"error_result_into_response"}],
       [line |-> 104, uses |-> {"web", "BaseException", "Error"}, binds |-> {"default_error_handler"}],
       [line |-> 109, uses |-> {"web", "BaseException", "NoReturn"}, binds |-> {"fail_error_handler"}],
       [line |-> 114, uses |-> {"Handler", "ErrorExcept", "Exception", "bool", "web", "ErrorHandler"},
                      binds |-> {"RequestHandler"}],
       [line |-> 143, uses |-> {"ErrorExcept", "Exception", "bool", "Callable", "Handler",
                                "RequestHandler"},
                      binds |-> {"request_handler"}],
       [line |-> 153, uses |-> {"Handler", "RequestHandler"},
                      binds |-> {"handler_into_request_handler"}] >>

\* what the wrapped handler does when called
HandlerOutcomes == {"returns", "raises matching", "raises other"}

InitHandler ==
    /\ pc = "import"
    /\ order = "big"
    /\ obj \in [fail_on_error : BOOLEAN, registers : BOOLEAN, handler : HandlerOutcomes]
    /\ binary = Builtins
    /\ text = 1
    /\ result = None

\* A statement whose names are all bound executes and binds its own; after
\* the last one the module is imported.
ExecuteStatement ==
    /\ pc = "import"
    /\ text <= Len(ModuleBody)
    /\ ModuleBody[text].uses \subseteq binary
    /\ binary' = binary \cup ModuleBody[text].binds
    /\ text' = text + 1
    /\ pc' = IF text = Len(ModuleBody) THEN "imported" ELSE "import"
    /\ UNCHANGED <<order, obj, result>>

\* A statement that evaluates a name bound neither in the module nor in
\* builtins raises NameError; the import fails and the program with it.
RaiseNameError ==
    /\ pc = "import"
    /\ text <= Len(ModuleBody)
    /\ ~ (ModuleBody[text].uses \subseteq binary)
    /\ result' = Raise("NameError")
    /\ pc' = "done"
    /\ UNCHANGED <<order, obj, binary, text>>

NextHandler ==
    \/ ExecuteStatement
    \/ RaiseNameError

SpecHandler == InitHandler /\ [][NextHandler]_vars

\* the error handler the claim takes to be in force for a program
CurrentErrorHandler(program) ==
    IF program.registers THEN "registered"
    ELSE IF program.fail_on_error THEN "fail_error_handler"
    ELSE "default_error_handler"

\* C28: when the wrapped handler raises an exception matching error_except
\* the error handler in force is invoked once with it: with the default one
\* the call returns an error response of status 500, with fail_on_error the
\* same exception propagates; an exception that does not match propagates
\* without the error handler being invoked.
C28_ErrorHandled ==
    (pc = "done" /\ obj.handler # "returns") =>
        CASE obj.handler = "raises other" -> result = Raise("other")
          [] CurrentErrorHandler(obj) = "default_error_handler" ->
                 result = [response |-> 500, invoked |-> 1]
          [] CurrentErrorHandler(obj) = "fail_error_handler" -> result = Raise("matching")
          [] OTHER -> result # Raise("NameError")

\* The import stops at line 84: ErrorExcept is the first statement that
\* evaluates a name (Union) that nothing has bound.
ImportStopsAtErrorExcept ==
    pc = "done" =>
        /\ result = Raise("NameError")
        /\ ModuleBody[text].line = 84
        /\ "Union" \notin binary
        /\ "RequestHandler" \notin binary

\* The import never completes, whatever the program meant to do afterwards.
NeverImported == pc # "imported"

(***************************************************************************)
(* SpecReencode: a byte string is decoded by Object.from_binary, the       *)
(* instance written by to_binary, and the bytes written decoded and        *)
(* written again.  The sources are encodings of an Object whose group list *)
(* was replaced by a list written as it is, duplicates and order included; *)
(* some are followed by a byte that belongs to no field, some stop one     *)
(* byte short, and x holds a number or a NaN.  text holds the source, the  *)
(* encodings written so far, and how the reader of the build turns a       *)
(* binary32 into a float: a conversion through the host's double makes a   *)
(* signalling NaN quiet on some builds and keeps its bits on others.       *)
(***************************************************************************)
SNaN == Float(0, 255, 1)

QNaN == Float(0, 255, 2 ^ 22)

signalling(f) == f.e = 255 /\ f.m # 0 /\ f.m < 2 ^ 22

\* the float a read of the binary32 f gives
converted(quiets, f) ==
    IF quiets /\ signalling(f) THEN [f EXCEPT !.m = f.m + 2 ^ 22] ELSE f

converted_hsv(quiets, hsv) ==
    [hsv EXCEPT !.s = converted(quiets, @), !.v = converted(quiets, @)]

\* the floats of an instance as the reader of the build gives them
converted_fields(quiets, self) ==
    IF IsError(self) THEN self
    ELSE [self EXCEPT !.x = converted(quiets, @),
                      !.y = converted(quiets, @),
                      !.rotation = converted(quiets, @),
                      !.scale = converted(quiets, @),
                      !.base_color_hsv = converted_hsv(quiets, @),
                      !.detail_color_hsv = converted_hsv(quiets, @)]

\* Object.from_binary with the reader of the build
Object_from_source(quiets, b, o) == converted_fields(quiets, from_binary("Object", b, o))

WireIds == {3, 5}

WireLists == UNION {[1 .. n -> WireIds] : n \in 0 .. MaxWire}

\* The encoding of self with the group list `ids` in place of its own.
WithWireList(self, ids, o) ==
    LET b == Object_to_binary([self EXCEPT !.groups = {}], o)
    IN SubSeq(b, 1, GroupsAt - 1)
       \o write_u16(Len(ids), o) \o write_each_u16(ids, o)
       \o write_u16(self.link_id, o)

WholeSources(o) ==
    {WithWireList([New("Object", 1) EXCEPT !.x = x, !.link_id = 7], ids, o) :
        x \in {F1, SNaN, QNaN}, ids \in WireLists}

\* Each b of S as it is, followed by one more byte, and without its last.
Lengthened(S) == S \cup {b \o <<0>> : b \in S} \cup {SubSeq(b, 1, Len(b) - 1) : b \in S}

ReencodeSources(o) == Lengthened(WholeSources(o))

InitReencode ==
    /\ pc = "source"
    /\ order \in ByteOrders
    /\ binary \in ReencodeSources(order)
    /\ \E quiets \in BOOLEAN :
          text = [source |-> binary, quiets |-> quiets, encodings |-> <<>>]
    /\ obj = None
    /\ result = None

\* result = Object.from_binary(binary, order), of the source or of the
\* bytes written last
FromBinary ==
    /\ pc \in {"source", "encoded"}
    /\ Len(text.encodings) < MaxRounds
    /\ result' = Object_from_source(text.quiets, binary, order)
    /\ obj' = IF IsError(result') THEN obj ELSE result'
    /\ pc' = IF IsError(result') THEN "failed" ELSE "decoded"
    /\ UNCHANGED <<order, binary, text>>

\* obj.to_binary(binary, order) on a fresh sink
ToBinary ==
    /\ pc = "decoded"
    /\ binary' = to_binary(obj, order)
    /\ text' = [text EXCEPT !.encodings = Append(@, binary')]
    /\ result' = None
    /\ pc' = "encoded"
    /\ UNCHANGED <<order, obj>>

NextReencode == FromBinary \/ ToBinary

SpecReencode == InitReencode /\ [][NextReencode]_vars

\* The group ids b lists, in the order it lists them.
GroupList(b, o) ==
    [i \in 1 .. Unbytes(b, GroupsAt, 2, o) |-> Unbytes(b, GroupsAt + 2 * i, 2, o)]

Ascending(ids) == \A i, j \in DOMAIN ids : i < j => ids[i] < ids[j]

\* The number of bytes of b that from_binary reads.
Consumed(b, o) == Object_from_binary("Object", Extra("Object"), b, Cursor(1), o).c.p - 1

\* No f32 of the Object that b holds is a signalling NaN.
Floats(self) ==
    {self.x, self.y, self.rotation, self.scale,
     self.base_color_hsv.s, self.base_color_hsv.v,
     self.detail_color_hsv.s, self.detail_color_hsv.v}

NoSignalling(b, o) == \A f \in Floats(from_binary("Object", b, o)) : ~signalling(f)

\* Every encoding written after the first equals the first, and the first
\* lists the distinct ids of the source in ascending order.
FixedPoint ==
    /\ \A i \in DOMAIN text.encodings : text.encodings[i] = text.encodings[1]
    /\ GroupList(text.encodings[1], order) = sorted(Range(GroupList(text.source, order)))

C30_WitnessKept ==
    /\ pc = "encoded"
    /\ GroupList(text.source, order) = <<3, 5>>
    /\ text.encodings[1] = text.source

\* A source followed by one more byte decodes, and is written without it.
C30_WitnessTrailing ==
    /\ pc = "encoded"
    /\ Ascending(GroupList(text.source, order))
    /\ Consumed(text.source, order) = Len(text.source) - 1
    /\ text.encodings[1] = SubSeq(text.source, 1, Len(text.source) - 1)

\* A source that stops one byte short does not decode.
ShortSourceFails ==
    pc = "failed" <=> (/\ text.encodings = <<>>
                       /\ result = Raise("Truncated"))

====
